---- MODULE Spec2Model ----
(***************************************************************************)
(* A model of the transaction preparation pipeline                         *)
(* (packages/client/src/transactions/prepareTransaction.ts) and of the SPL *)
(* transfer controller                                                     *)
(* (packages/client/src/controllers/splTransferController.ts), and of      *)
(* Connection.getProgramAccounts and sendAndConfirmTransaction of          *)
(* packages/web3-compat.                                                   *)
(*                                                                         *)
(* JavaScript runs one task at a time, so every action below is the code   *)
(* that runs between two suspension points (await) of an async function.   *)
(* Numbers are exact: a multiplier is a fraction num/den with den > 0.     *)
(***************************************************************************)
EXTENDS Integers, Sequences, FiniteSets, TLC

VARIABLES
    input,      \* the message object passed as config.transaction
    config,     \* config[c]: the options of prepareTransaction call c
    call,       \* call[c]: position, locals and history of call c
    providers,  \* the controller's authorityProvider and sourceOwnerProvider
    audience,   \* the listeners the application subscribes
    throwsOn,   \* throwsOn[l]: the statuses on which listener l throws
    ctl,        \* the controller's closure: state and listeners
    send,       \* send[s]: position and locals of send call s
    hist,       \* what the listeners, the helper and the providers have seen
    compat,     \* web3-compat: a Connection, and the calls made with it
    persistence \* react-hooks: the WalletPersistence component and its storage

prepareVars == <<input, config, call>>

controllerVars == <<providers, audience, throwsOn, ctl, send, hist>>

vars ==
    <<input, config, call, providers, audience, throwsOn, ctl, send, hist, compat,
      persistence>>

-----------------------------------------------------------------------------
(* Bounds of the model.                                                    *)

\* The longest instruction list of an input message.
MaxInstructions == 2

\* The number of calls of send and reset made on the controller.
MaxCalls == 2

\* The number of renders of the WalletPersistence component.
MaxRenders == 3

-----------------------------------------------------------------------------
(* prepareTransaction.ts: constants.                                       *)

DEFAULT_COMPUTE_UNIT_LIMIT_MULTIPLIER == [num |-> 11, den |-> 10]

DEFAULT_COMPUTE_UNIT_LIMIT == 200000

MAX_COMPUTE_UNIT_LIMIT == 1400000

COMPUTE_BUDGET_PROGRAM_ADDRESS == "ComputeBudget111111111111111111111111111111"

PROGRAM_ADDRESS == "So11111111111111111111111111111111111111112"

-----------------------------------------------------------------------------
(* Values.                                                                 *)

\* An instruction: its program and its data bytes. A set-compute-unit-limit
\* instruction carries the discriminant 2, then the units.
getSetComputeUnitLimitInstruction(units) ==
    [programAddress |-> COMPUTE_BUDGET_PROGRAM_ADDRESS, data |-> <<2, units>>]

\* The instructions an input message is built from: two of another program
\* (one of them with first data byte 2), a set-compute-unit-limit of 100,000
\* units, and a compute-budget instruction of another kind (discriminant 3).
InputInstructions ==
    { [programAddress |-> PROGRAM_ADDRESS, data |-> <<1>>],
      [programAddress |-> PROGRAM_ADDRESS, data |-> <<2>>],
      getSetComputeUnitLimitInstruction(100000),
      [programAddress |-> COMPUTE_BUDGET_PROGRAM_ADDRESS, data |-> <<3, 1>>] }

SeqsUpTo(S, n) == UNION { [1..k -> S] : k \in 0..n }

\* lifetimeConstraint: "undefined" when the message is not bound to a lifetime.
StaleLifetime == "stale"

\* What getLatestBlockhash can answer.
LatestBlockhashes == {"abc", "def"}

InputMessages ==
    [instructions : SeqsUpTo(InputInstructions, MaxInstructions),
     lifetimeConstraint : {"undefined", StaleLifetime}]

\* computeUnitLimitMultiplier: unset, or a number num/den.
Multipliers ==
    { [t |-> "undefined", num |-> 0, den |-> 1],
      [t |-> "number", num |-> 0, den |-> 1],
      [t |-> "number", num |-> 1, den |-> 2],
      [t |-> "number", num |-> 1, den |-> 1],
      [t |-> "number", num |-> 2, den |-> 1] }

OptionalBooleans == {"undefined", "false", "true"}

\* value.unitsConsumed of a resolved simulation: null, absent, not a number,
\* or a number.
UnitsConsumedValues ==
    { [t |-> "null", n |-> 0], [t |-> "undefined", n |-> 0],
      [t |-> "string", n |-> 0] }
    \cup { [t |-> "number", n |-> u] : u \in {0, 10000, 500000, 2000000} }

\* The value of a resolved simulation: err is null, or reports that the
\* simulated transaction failed.
SimulationValues ==
    [unitsConsumed : UnitsConsumedValues, err : {"null"}]
    \cup [unitsConsumed : { [t |-> "null", n |-> 0], [t |-> "number", n |-> 500000] },
          err : {"InstructionError"}]

\* An error is the chain of its causes, outermost first; each link is a
\* SolanaError of the compute-budget-exceeded code ("budget"), a SolanaError of
\* another code ("solana") or an error that is no SolanaError ("plain").
Errors ==
    { <<"budget">>, <<"solana">>, <<"plain">>,
      <<"solana", "budget">>, <<"solana", "solana">>, <<"plain", "budget">>,
      <<"solana", "solana", "budget">>, <<"solana", "plain", "budget">> }

\* What a failing getLatestBlockhash rejects with.
BlockhashErrors == { <<"solana">>, <<"budget">> }

\* config.rpc: what the RPC of a call may answer to its requests. One RPC
\* answers anything; the RPC of two calls on one message answers less.
Rpcs ==
    [getLatestBlockhash : {LatestBlockhashes},
     getLatestBlockhashError : {BlockhashErrors},
     simulateTransaction : {SimulationValues},
     simulateTransactionError : {Errors}]

SharedRpcs ==
    [getLatestBlockhash : {LatestBlockhashes},
     getLatestBlockhashError : {{<<"solana">>}},
     simulateTransaction :
        {{ [unitsConsumed |-> [t |-> "number", n |-> 500000], err |-> "null"] }},
     simulateTransactionError : {{<<"solana", "budget">>, <<"plain">>}}]

Configs ==
    [computeUnitLimitMultiplier : Multipliers,
     computeUnitLimitReset : OptionalBooleans,
     blockhashReset : OptionalBooleans,
     logRequest : BOOLEAN,
     rpc : Rpcs]

NoError == << >>

NoMessage == [instructions |-> << >>, lifetimeConstraint |-> "none"]

Calls == {"p1"}

-----------------------------------------------------------------------------
(* prepareTransaction.ts: helpers.                                         *)

\* transactionToBase64: the wire form of a message, as text.
transactionToBase64(message) ==
    <<"base64", message.lifetimeConstraint>> \o
    [i \in 1..Len(message.instructions) |->
        <<message.instructions[i].programAddress, message.instructions[i].data>>]

\* data?.[0]: undefined when there is no first byte.
FirstByte(instruction) ==
    IF Len(instruction.data) = 0 THEN -1 ELSE instruction.data[1]

isComputeUnitLimitInstruction(instruction) ==
    /\ instruction.programAddress = COMPUTE_BUDGET_PROGRAM_ADDRESS
    /\ FirstByte(instruction) = 2

\* Array.prototype.findIndex: the 0-based index of the first match, or -1.
findIndexOfComputeLimit(instructions) ==
    IF \E i \in 1..Len(instructions) : isComputeUnitLimitInstruction(instructions[i])
    THEN (CHOOSE i \in 1..Len(instructions) :
              /\ isComputeUnitLimitInstruction(instructions[i])
              /\ \A j \in 1..(i - 1) : ~isComputeUnitLimitInstruction(instructions[j])) - 1
    ELSE -1

isSolanaError(link) == link \in {"budget", "solana"}

\* The while loop over error.cause: it goes on only through SolanaErrors.
RECURSIVE didExceedComputeBudget(_)
didExceedComputeBudget(error) ==
    IF error = << >> \/ ~isSolanaError(Head(error)) THEN FALSE
    ELSE IF Head(error) = "budget" THEN TRUE
    ELSE didExceedComputeBudget(Tail(error))

setTransactionMessageLifetimeUsingBlockhash(latest, message) ==
    [message EXCEPT !.lifetimeConstraint = latest]

appendTransactionMessageInstruction(instruction, message) ==
    [message EXCEPT !.instructions = Append(@, instruction)]

\* A variant of spliceInstruction: the old instruction is removed and the new
\* one is pushed at the end.
spliceInstruction_RemoveAndPush(instructions, index, instruction) ==
    [i \in 1..Len(instructions) |->
        IF i < index + 1 THEN instructions[i]
        ELSE IF i < Len(instructions) THEN instructions[i + 1]
        ELSE instruction]

\* nextInstructions.splice(index, 1, instruction), index 0-based.
spliceInstruction(instructions, index, instruction) ==
    [i \in 1..Len(instructions) |->
        IF i = index + 1 THEN instruction ELSE instructions[i]]

\* A variant: a missing unitsConsumed counts as -1, Number(value.unitsConsumed ?? -1).
unitsFromValue_MissingIsNegative(value) ==
    LET u == value.unitsConsumed
    IN  IF u.t \in {"null", "undefined"} THEN -1
        ELSE IF u.t # "number" THEN 0
        ELSE u.n

\* A variant: the units of a simulation that reports a failure count as 0.
unitsFromValue_FailedCountsZero(value) ==
    LET u == value.unitsConsumed
    IN  IF value.err # "null" \/ u.t # "number" THEN 0 ELSE u.n

\* Number(value.unitsConsumed ?? 0) || 0
unitsFromValue(value) ==
    LET u == value.unitsConsumed
        coalesced == IF u.t \in {"null", "undefined"} THEN [t |-> "number", n |-> 0] ELSE u
        isNaN == coalesced.t # "number"
    IN  IF isNaN \/ coalesced.n = 0 THEN 0 ELSE coalesced.n

Max(a, b) == IF a >= b THEN a ELSE b

Min(a, b) == IF a <= b THEN a ELSE b

\* Math.ceil(n / d), d > 0.
CeilDiv(n, d) == -((-n) \div d)

multiplierOf(cfg) ==
    IF cfg.computeUnitLimitMultiplier.t = "undefined"
    THEN DEFAULT_COMPUTE_UNIT_LIMIT_MULTIPLIER
    ELSE [num |-> cfg.computeUnitLimitMultiplier.num,
          den |-> cfg.computeUnitLimitMultiplier.den]

\* A variant of computeUnits: the floor is applied before the multiplication.
computeUnits_FloorFirst(unitsFromSimulation, multiplier) ==
    Min(MAX_COMPUTE_UNIT_LIMIT,
        Max(1, CeilDiv(Max(DEFAULT_COMPUTE_UNIT_LIMIT, unitsFromSimulation) * multiplier.num,
                       multiplier.den)))

\* Lines 101-107: from the estimator's answer to the declared units.
computeUnits(unitsFromSimulation, multiplier) ==
    LET estimatedUnits ==
            IF unitsFromSimulation # 0
            THEN CeilDiv(unitsFromSimulation * multiplier.num, multiplier.den)
            ELSE DEFAULT_COMPUTE_UNIT_LIMIT
    IN  Min(MAX_COMPUTE_UNIT_LIMIT,
            Max(DEFAULT_COMPUTE_UNIT_LIMIT, Max(1, estimatedUnits)))

\* A variant of shouldResetBlockhash: blockhashReset || true.
shouldResetBlockhash_Always(cfg) == TRUE

\* Line 93.
shouldResetBlockhash(cfg) == cfg.blockhashReset # "false"

\* A variant of shouldResetComputeUnits: the option defaults to true, as
\* blockhashReset does.
shouldResetComputeUnits_DefaultTrue(cfg) == cfg.computeUnitLimitReset # "false"

\* Line 94.
shouldResetComputeUnits(cfg) == cfg.computeUnitLimitReset = "true"

hasLifetime(message) == message.lifetimeConstraint # "undefined"

-----------------------------------------------------------------------------
(* prepareTransaction.ts: the async functions, cut at their awaits.        *)

Event(type, name, step) == [type |-> type, name |-> name, step |-> step]

IdleCall ==
    [pc |-> "idle", transaction |-> NoMessage, target |-> NoMessage,
     computeLimitIndex |-> -1, events |-> << >>,
     simulated |-> << >>, simulationValues |-> << >>, estimate |-> -1,
     simulationError |-> NoError, blockhashError |-> NoError,
     fetched |-> << >>, logged |-> << >>, result |-> NoMessage,
     error |-> NoError, shared |-> FALSE, given |-> NoMessage]

\* A variant of finish: logRequest gets the message as it was before Step B.
finish_LogsBeforeStepB(rec, cfg, transaction) ==
    [rec EXCEPT
        !.pc = "resolved",
        !.transaction = transaction,
        !.result = transaction,
        !.logged = IF cfg.logRequest
                   THEN Append(@, transactionToBase64(rec.transaction)) ELSE @,
        !.events = IF cfg.logRequest
                   THEN Append(@, Event("call", "logRequest", "C")) ELSE @]

\* Lines 136-140: Step C and the return.
finish(rec, cfg, transaction) ==
    [rec EXCEPT
        !.pc = "resolved",
        !.transaction = transaction,
        !.result = transaction,
        !.logged = IF cfg.logRequest
                   THEN Append(@, transactionToBase64(transaction)) ELSE @,
        !.events = IF cfg.logRequest
                   THEN Append(@, Event("call", "logRequest", "C")) ELSE @]

\* Lines 121-124: Step B up to its await.
stepB(rec, cfg, transaction) ==
    IF shouldResetBlockhash(cfg) \/ ~hasLifetime(transaction)
    THEN [rec EXCEPT
            !.pc = "blockhash",
            !.transaction = transaction,
            !.events = Append(@, Event("request", "getLatestBlockhash", "B"))]
    ELSE finish(rec, cfg, transaction)

\* A variant of applyLatestBlockhash: an existing constraint is never replaced.
applyLatestBlockhash_BindOnly(cfg, transaction, latest) ==
    IF ~hasLifetime(transaction)
    THEN setTransactionMessageLifetimeUsingBlockhash(latest, transaction)
    ELSE transaction

\* Lines 125-133: Step B once the blockhash is there.
applyLatestBlockhash(cfg, transaction, latest) ==
    IF ~hasLifetime(transaction)
    THEN setTransactionMessageLifetimeUsingBlockhash(latest, transaction)
    ELSE IF shouldResetBlockhash(cfg)
    THEN [transaction EXCEPT !.lifetimeConstraint = latest]
    ELSE transaction

\* A variant that appends the new instruction also when one exists.
writeComputeLimit_AlwaysAppends(transaction, computeLimitIndex, units) ==
    appendTransactionMessageInstruction(getSetComputeUnitLimitInstruction(units), transaction)

\* Lines 108-118: the new instruction is appended or replaces the old one.
writeComputeLimit(transaction, computeLimitIndex, units) ==
    LET instruction == getSetComputeUnitLimitInstruction(units)
    IN  IF computeLimitIndex = -1
        THEN appendTransactionMessageInstruction(instruction, transaction)
        ELSE [transaction EXCEPT
                !.instructions = spliceInstruction(@, computeLimitIndex, instruction)]

\* Lines 100-119 after the estimator has returned, then Step B.
afterEstimate(rec, cfg, unitsFromSimulation) ==
    LET units == computeUnits(unitsFromSimulation, multiplierOf(cfg))
        transaction == writeComputeLimit(rec.transaction, rec.computeLimitIndex, units)
    IN  stepB([rec EXCEPT !.estimate = unitsFromSimulation, !.shared = FALSE],
              cfg, transaction)

\* Lines 71-79: the estimator encodes its target and requests the simulation.
requestSimulation(rec, target) ==
    [rec EXCEPT
        !.pc = "simulate",
        !.target = target,
        !.simulated = Append(@, transactionToBase64(target)),
        !.events = Append(@, Event("request", "simulateTransaction", "A"))]

\* A variant of the estimator: it fetches a blockhash for its scratch copy
\* whether or not the message has a lifetime.
estimateComputeUnits_AlwaysFetches(rec, transaction) ==
    [rec EXCEPT
        !.pc = "estimatorBlockhash",
        !.target = transaction,
        !.events = Append(@, Event("request", "getLatestBlockhash", "A"))]

\* Lines 61-65: the estimator up to its first await.
estimateComputeUnits(rec, transaction) ==
    IF ~hasLifetime(transaction)
    THEN [rec EXCEPT
            !.pc = "estimatorBlockhash",
            !.target = transaction,
            !.events = Append(@, Event("request", "getLatestBlockhash", "A"))]
    ELSE requestSimulation(rec, transaction)

\* Lines 92-100: the call, up to its first await (or to its return).
prepareTransaction(rec, cfg, transaction) ==
    LET computeLimitIndex == findIndexOfComputeLimit(transaction.instructions)
        started == [rec EXCEPT !.transaction = transaction,
                               !.given = transaction,
                               !.shared = TRUE,
                               !.computeLimitIndex = computeLimitIndex]
    IN  IF computeLimitIndex = -1 \/ shouldResetComputeUnits(cfg)
        THEN estimateComputeUnits(started, transaction)
        ELSE stepB(started, cfg, transaction)

\* A variant of copyOnWrite: the message given is changed in place.
copyOnWrite_InPlace(message, next) == next

\* What is left of the message an operation was given, once the operation has
\* built the next message from it: the operations work on a copy (lines 112
\* to 117, 128 to 131) or return a new message (lines 66, 110, 126).
copyOnWrite(message, next) == message

\* Line 96: the local variable transaction is the message of the caller, the
\* object itself, until a new message is assigned to it; so is target, line
\* 61, until line 66.
held(rec) ==
    [rec EXCEPT
        !.transaction = IF rec.shared THEN input ELSE @,
        !.target = IF rec.shared /\ rec.pc = "estimatorBlockhash" THEN input ELSE @]

\* A variant of reject: the error is wrapped into a new one.
reject_Wrapped(rec, error) ==
    [rec EXCEPT !.pc = "rejected", !.error = <<"plain">> \o error]

\* The promise of the call rejects with the error thrown.
reject(rec, error) == [rec EXCEPT !.pc = "rejected", !.error = error]

-----------------------------------------------------------------------------
(* Actions of the preparation pipeline.                                    *)

\* prepareTransaction(config) is called.
Prepare(c) ==
    /\ call[c].pc = "idle"
    /\ call' = [call EXCEPT ![c] = prepareTransaction(@, config[c], input)]
    /\ UNCHANGED <<input, config, controllerVars, compat, persistence>>

\* The estimator's getLatestBlockhash answers (line 65).
EstimatorBlockhashResolves(c) ==
    /\ call[c].pc = "estimatorBlockhash"
    /\ \E latest \in config[c].rpc.getLatestBlockhash :
        LET target == setTransactionMessageLifetimeUsingBlockhash(
                            latest, held(call[c]).target)
        IN  /\ call' = [call EXCEPT ![c] =
                    requestSimulation(
                        [held(@) EXCEPT
                            !.fetched = Append(@, latest),
                            !.events = Append(@, Event("resolve", "getLatestBlockhash", "A"))],
                        target)]
            /\ input' = copyOnWrite(input, target)
    /\ UNCHANGED <<config, controllerVars, compat, persistence>>

\* The estimator's getLatestBlockhash fails: nothing catches it.
EstimatorBlockhashRejects(c) ==
    /\ call[c].pc = "estimatorBlockhash"
    /\ \E error \in config[c].rpc.getLatestBlockhashError :
        call' = [call EXCEPT ![c] =
            reject([@ EXCEPT !.blockhashError = error,
                             !.events = Append(@, Event("reject", "getLatestBlockhash", "A"))],
                   error)]
    /\ UNCHANGED <<input, config, controllerVars, compat, persistence>>

\* simulateTransaction answers (lines 73-80), then lines 101-124.
SimulationResolves(c) ==
    /\ call[c].pc = "simulate"
    /\ \E value \in config[c].rpc.simulateTransaction :
        LET next == afterEstimate(
                        [held(call[c]) EXCEPT
                            !.simulationValues = Append(@, value),
                            !.events = Append(@, Event("resolve", "simulateTransaction", "A"))],
                        config[c], unitsFromValue(value))
        IN  /\ call' = [call EXCEPT ![c] = next]
            /\ input' = copyOnWrite(input, next.transaction)
    /\ UNCHANGED <<config, controllerVars, compat, persistence>>

\* simulateTransaction fails (lines 81-86).
SimulationRejects(c) ==
    /\ call[c].pc = "simulate"
    /\ \E error \in config[c].rpc.simulateTransactionError :
        LET rec == [held(call[c]) EXCEPT
                        !.simulationError = error,
                        !.events = Append(@, Event("reject", "simulateTransaction", "A"))]
            next == IF didExceedComputeBudget(error)
                    THEN afterEstimate(rec, config[c], MAX_COMPUTE_UNIT_LIMIT)
                    ELSE reject(rec, error)
        IN  /\ call' = [call EXCEPT ![c] = next]
            /\ input' = IF didExceedComputeBudget(error)
                         THEN copyOnWrite(input, next.transaction)
                         ELSE input
    /\ UNCHANGED <<config, controllerVars, compat, persistence>>

\* Step B's getLatestBlockhash answers (line 124), then lines 125-140.
BlockhashResolves(c) ==
    /\ call[c].pc = "blockhash"
    /\ \E latest \in config[c].rpc.getLatestBlockhash :
        LET transaction ==
                applyLatestBlockhash(config[c], held(call[c]).transaction, latest)
        IN  /\ call' = [call EXCEPT ![c] =
                    finish([held(@) EXCEPT
                                !.fetched = Append(@, latest),
                                !.events = Append(@, Event("resolve", "getLatestBlockhash", "B"))],
                           config[c], transaction)]
            /\ input' = IF call[c].shared THEN copyOnWrite(input, transaction)
                         ELSE input
    /\ UNCHANGED <<config, controllerVars, compat, persistence>>

\* Step B's getLatestBlockhash fails.
BlockhashRejects(c) ==
    /\ call[c].pc = "blockhash"
    /\ \E error \in config[c].rpc.getLatestBlockhashError :
        call' = [call EXCEPT ![c] =
            reject([@ EXCEPT !.blockhashError = error,
                             !.events = Append(@, Event("reject", "getLatestBlockhash", "B"))],
                   error)]
    /\ UNCHANGED <<input, config, controllerVars, compat, persistence>>

-----------------------------------------------------------------------------
(* splTransferController.ts: values.                                       *)

Statuses == {"idle", "loading", "success", "error"}

\* state/asyncState: the state a controller starts from and goes back to.
createInitialAsyncState == [status |-> "idle", data |-> << >>, error |-> << >>]

\* state/asyncState: a state of the given status with its data or error.
createAsyncState(status, data, error) == [status |-> status, data |-> data, error |-> error]

\* An optional field of the input: absent, falsy without being null or
\* undefined (an empty string), or given.
AuthorityInputs == {"undefined", "", "authority:input"}

SourceOwnerInputs == {"undefined", "", "owner:input"}

\* A provider is absent, or answers undefined, or answers a value.
AuthorityProviders == {"absent", "undefined", "authority:provider"}

SourceOwnerProviders == {"absent", "undefined", "owner:provider"}

SendOptions == {"undefined", "options"}

\* The fields of the input that send does not resolve, as one value.
Amounts == {1, 2}

SplTransferInputs ==
    [amount : Amounts, authority : AuthorityInputs, sourceOwner : SourceOwnerInputs]

\* What helper.sendTransfer answers to send call s: every transfer has a
\* signature of its own, and fails with an error of its own.
Signatures(s) == { <<"sig", s>> }

TransferErrors(s) == { <<"transfer failed", s>> }

NoValue == << >>

Listeners == {"l1", "l2"}

Sends == 1..MaxCalls

\* The messages of the two errors of ensureTransferConfig, word by word.
AuthorityMessage ==
    <<"Connect", "a", "wallet", "or", "supply", "an", "authority", "before",
      "sending", "SPL", "tokens">>

SourceOwnerMessage ==
    <<"Unable", "to", "resolve", "a", "source", "owner", "for", "the", "SPL",
      "token", "transfer">>

NoConfig == [amount |-> 0, authority |-> "none", sourceOwner |-> "none"]

\* JavaScript truthiness of an optional string or object.
Truthy(v) == v \notin {"undefined", ""}

\* v ?? w evaluates w only when v is null or undefined.
Nullish(v) == v = "undefined"

-----------------------------------------------------------------------------
(* splTransferController.ts: functions.                                    *)

\* A variant of ensureTransferConfig: one message for both missing fields.
ensureTransferConfig_OneMessage(inputConfig, resolveAuthority, resolveSourceOwner) ==
    LET authority ==
            IF ~Nullish(inputConfig.authority) THEN inputConfig.authority
            ELSE IF resolveAuthority = "absent" THEN "undefined"
            ELSE resolveAuthority
        sourceOwner ==
            IF ~Nullish(inputConfig.sourceOwner) THEN inputConfig.sourceOwner
            ELSE IF resolveSourceOwner = "absent" THEN "undefined"
            ELSE resolveSourceOwner
    IN  IF ~Truthy(authority) \/ ~Truthy(sourceOwner)
        THEN [threw |-> TRUE, error |-> AuthorityMessage, called |-> << >>,
              config |-> NoConfig]
        ELSE [threw |-> FALSE, error |-> << >>, called |-> << >>,
              config |-> [inputConfig EXCEPT !.authority = authority,
                                             !.sourceOwner = sourceOwner]]

\* Lines 28-46. resolveAuthority and resolveSourceOwner are the providers send
\* hands over: "absent" when it passes undefined. The answer tells which
\* providers were called, and either the resolved config or the error thrown.
ensureTransferConfig(inputConfig, resolveAuthority, resolveSourceOwner) ==
    LET callsAuthority == Nullish(inputConfig.authority) /\ resolveAuthority # "absent"
        authority ==
            IF ~Nullish(inputConfig.authority) THEN inputConfig.authority
            ELSE IF resolveAuthority = "absent" THEN "undefined"
            ELSE resolveAuthority
        callsSourceOwner ==
            /\ Truthy(authority)
            /\ Nullish(inputConfig.sourceOwner)
            /\ resolveSourceOwner # "absent"
        sourceOwner ==
            IF ~Nullish(inputConfig.sourceOwner) THEN inputConfig.sourceOwner
            ELSE IF resolveSourceOwner = "absent" THEN "undefined"
            ELSE resolveSourceOwner
        called == (IF callsAuthority THEN <<"authorityProvider">> ELSE << >>)
                  \o (IF callsSourceOwner THEN <<"sourceOwnerProvider">> ELSE << >>)
    IN  IF ~Truthy(authority)
        THEN [threw |-> TRUE, error |-> AuthorityMessage, called |-> called,
              config |-> NoConfig]
        ELSE IF ~Truthy(sourceOwner)
        THEN [threw |-> TRUE, error |-> SourceOwnerMessage, called |-> called,
              config |-> NoConfig]
        ELSE [threw |-> FALSE, error |-> << >>, called |-> called,
              config |-> [inputConfig EXCEPT !.authority = authority,
                                             !.sourceOwner = sourceOwner]]

\* A variant of lines 67-71: the providers are asked first, whatever the input
\* supplies.
resolveConfig_ProvidersFirst(inputConfig) ==
    ensureTransferConfig(
        [inputConfig EXCEPT
            !.authority = IF providers.authorityProvider = "absent" THEN @ ELSE "undefined",
            !.sourceOwner = IF providers.sourceOwnerProvider = "absent" THEN @ ELSE "undefined"],
        providers.authorityProvider,
        providers.sourceOwnerProvider)

\* Lines 67-71: what send passes to ensureTransferConfig.
resolveConfig(inputConfig) ==
    ensureTransferConfig(
        inputConfig,
        IF Truthy(inputConfig.authority) THEN "absent" ELSE providers.authorityProvider,
        IF Truthy(inputConfig.sourceOwner) THEN "absent" ELSE providers.sourceOwnerProvider)

\* The exception a listener throws.
ListenerError(l) == <<"listener", l>>

\* A variant of notify: the loop ends after the first listener.
notify_FirstOnly(k) ==
    LET n == Len(k.listeners)
        last == IF n = 0 THEN 0 ELSE 1
        throwers == { i \in 1..last : k.state.status \in throwsOn[k.listeners[i]] }
        invoked == { k.listeners[i] : i \in 1..last }
    IN  [k EXCEPT
            !.seen = [l \in Listeners |->
                        IF l \in invoked THEN Append(@[l], k.state.status) ELSE @[l]],
            !.read = [l \in Listeners |->
                        IF l \in invoked THEN Append(@[l], k.state) ELSE @[l]],
            !.thrown = throwers # {},
            !.exception = IF throwers = {} THEN << >>
                          ELSE ListenerError(k.listeners[last])]

\* Lines 55-59: the listeners are called in the order they were added, until
\* one throws. A listener reads getState(), line 96, and its status. k is the
\* closure with the history: [state, listeners, seen, read, publishes, thrown,
\* exception].
notify(k) ==
    LET n == Len(k.listeners)
        throwers == { i \in 1..n : k.state.status \in throwsOn[k.listeners[i]] }
        last == IF throwers = {} THEN n
                ELSE CHOOSE i \in throwers : \A j \in throwers : i <= j
        invoked == { k.listeners[i] : i \in 1..last }
    IN  [k EXCEPT
            !.seen = [l \in Listeners |->
                        IF l \in invoked THEN Append(@[l], k.state.status) ELSE @[l]],
            !.read = [l \in Listeners |->
                        IF l \in invoked THEN Append(@[l], k.state) ELSE @[l]],
            !.thrown = throwers # {},
            !.exception = IF throwers = {} THEN << >>
                          ELSE ListenerError(k.listeners[last])]

\* A variant of setState: the state is published a second time.
setState_Twice(k, next) ==
    LET once == notify([k EXCEPT !.state = next, !.publishes = Append(@, next)])
    IN  notify([once EXCEPT !.state = next, !.publishes = Append(@, next)])

\* A variant of setState: a result is not replaced by another result.
setState_FirstResultWins(k, next) ==
    IF k.state.status \in {"success", "error"} /\ next.status \in {"success", "error"}
    THEN notify([k EXCEPT !.publishes = Append(@, k.state)])
    ELSE notify([k EXCEPT !.state = next, !.publishes = Append(@, next)])

\* A variant of setState: the listeners are called before the state is set.
setState_NotifyFirst(k, next) ==
    [notify(k) EXCEPT !.state = next, !.publishes = Append(@, next)]

\* Lines 61-64.
setState(k, next) ==
    notify([k EXCEPT !.state = next, !.publishes = Append(@, next)])

\* The closure and the history as one record, and back.
Closure ==
    [state |-> ctl.state, listeners |-> ctl.listeners, seen |-> hist.seen,
     read |-> hist.read,
     publishes |-> hist.publishes, thrown |-> FALSE, exception |-> << >>]

IdleSend == [pc |-> "idle", value |-> NoValue, error |-> << >>]

\* What is known of a send call right after it was made, until Forget: its arguments, the providers it called and the
\* arguments it gave to helper.sendTransfer, if it did.
NoCall ==
    [by |-> 0, input |-> NoConfig, options |-> "undefined", called |-> << >>,
     rejected |-> FALSE, error |-> << >>,
     invoked |-> FALSE, config |-> NoConfig, passed |-> "undefined"]

\* Line 74: helper.sendTransfer is called for send call s. What the helper
\* finds then: how many states were published, and the status.
sendTransfer(k, s) ==
    [by |-> s, at |-> Len(k.publishes), status |-> k.state.status]

IndexOf(seq, x) == CHOOSE i \in 1..Len(seq) : seq[i] = x

Remove(seq, x) ==
    IF \E i \in 1..Len(seq) : seq[i] = x
    THEN [i \in 1..(Len(seq) - 1) |->
            IF i < IndexOf(seq, x) THEN seq[i] ELSE seq[i + 1]]
    ELSE seq

-----------------------------------------------------------------------------
(* Actions of the controller.                                              *)

ControllerIdle ==
    /\ ctl = [state |-> createInitialAsyncState, listeners |-> << >>]
    /\ send = [s \in Sends |-> IdleSend]
    /\ hist = [seen |-> [l \in Listeners |-> << >>],
               read |-> [l \in Listeners |-> << >>],
               transfers |-> << >>,
               subscribedAt |-> [l \in Listeners |-> -1],
               unsubscribedAt |-> [l \in Listeners |-> -1],
               publishes |-> << >>, publishedBy |-> << >>,
               invoked |-> << >>, last |-> NoCall, calls |-> 0]

\* send(config, options), lines 66-74, up to the await. A call that fails in
\* ensureTransferConfig leaves nothing behind but its rejected promise.
Send(s) ==
    /\ hist.last = NoCall
    /\ hist.calls < MaxCalls
    /\ send[s].pc = "idle"
    /\ \A t \in 1..(s - 1) : send[t].pc # "idle"
    /\ \E inputConfig \in SplTransferInputs, options \in SendOptions :
        LET resolved == resolveConfig(inputConfig)
            k == setState(Closure, createAsyncState("loading", NoValue, << >>))
            invokes == ~resolved.threw /\ ~k.thrown
            failure == IF resolved.threw THEN resolved.error ELSE k.exception
            latest == [by |-> s, input |-> inputConfig, options |-> options,
                       called |-> resolved.called,
                       rejected |-> ~invokes,
                       error |-> IF invokes THEN << >> ELSE failure,
                       invoked |-> invokes,
                       config |-> IF invokes THEN resolved.config ELSE NoConfig,
                       passed |-> IF invokes THEN options ELSE "undefined"]
        IN  IF resolved.threw
            THEN /\ hist' = [hist EXCEPT !.last = latest]
                 /\ UNCHANGED <<ctl, send>>
            ELSE /\ ctl' = [ctl EXCEPT !.state = k.state]
                 /\ hist' = [hist EXCEPT
                        !.calls = @ + 1,
                        !.last = latest,
                        !.seen = k.seen, !.read = k.read,
                        !.publishes = k.publishes,
                        !.publishedBy = Append(@, s),
                        !.invoked = IF k.thrown THEN @ ELSE Append(@, s),
                        !.transfers = IF k.thrown THEN @
                                      ELSE Append(@, sendTransfer(k, s))]
                 /\ send' = [send EXCEPT ![s] =
                        IF k.thrown
                        THEN [@ EXCEPT !.pc = "rejected", !.error = k.exception]
                        ELSE [@ EXCEPT !.pc = "pending"]]
    /\ UNCHANGED <<providers, audience, throwsOn, prepareVars, compat, persistence>>

\* A variant of the catch block: what a listener threw is not published as
\* an error, the state is published again as it is.
catch_SkipsListenerErrors(k, error) ==
    IF error[1] = "listener"
    THEN setState([k EXCEPT !.thrown = FALSE, !.exception = << >>], k.state)
    ELSE setState([k EXCEPT !.thrown = FALSE, !.exception = << >>],
                  createAsyncState("error", NoValue, error))

\* A variant of the catch block: a failed send puts the controller back to idle.
catch_ResetsOnError(k, error) ==
    setState([k EXCEPT !.thrown = FALSE, !.exception = << >>],
             createInitialAsyncState)

\* A variant of the catch block: the error state does not carry the error.
catch_DropsError(k, error) ==
    setState([k EXCEPT !.thrown = FALSE, !.exception = << >>],
             createAsyncState("error", NoValue, << >>))

\* Lines 77-79: the catch block of send.
catch(k, error) ==
    setState([k EXCEPT !.thrown = FALSE, !.exception = << >>],
             createAsyncState("error", NoValue, error))

\* A variant of lines 74-76: the signature is returned and nothing published.
SendTransferResolves_Silently(s) ==
    /\ hist.last = NoCall
    /\ send[s].pc = "pending"
    /\ \E signature \in Signatures(s) :
        send' = [send EXCEPT ![s] = [@ EXCEPT !.pc = "resolved", !.value = signature]]
    /\ UNCHANGED <<providers, audience, throwsOn, ctl, hist, prepareVars, compat, persistence>>

\* helper.sendTransfer resolves: lines 74-76, and 77-79 if a listener throws.
SendTransferResolves(s) ==
    /\ hist.last = NoCall
    /\ send[s].pc = "pending"
    /\ \E signature \in Signatures(s) :
        LET k1 == setState(Closure, createAsyncState("success", signature, << >>))
            k == IF k1.thrown THEN catch(k1, k1.exception) ELSE k1
            failure == IF k.thrown THEN k.exception ELSE k1.exception
        IN  /\ ctl' = [ctl EXCEPT !.state = k.state]
            /\ hist' = [hist EXCEPT
                    !.seen = k.seen, !.read = k.read,
                    !.publishes = k.publishes,
                    !.publishedBy = IF k1.thrown THEN @ \o <<s, s>> ELSE Append(@, s)]
            /\ send' = [send EXCEPT ![s] =
                    IF k1.thrown
                    THEN [@ EXCEPT !.pc = "rejected", !.error = failure]
                    ELSE [@ EXCEPT !.pc = "resolved", !.value = signature]]
    /\ UNCHANGED <<providers, audience, throwsOn, prepareVars, compat, persistence>>

\* helper.sendTransfer rejects: lines 77-79.
SendTransferRejects(s) ==
    /\ hist.last = NoCall
    /\ send[s].pc = "pending"
    /\ \E error \in TransferErrors(s) :
        LET k == catch(Closure, error)
        IN  /\ ctl' = [ctl EXCEPT !.state = k.state]
            /\ hist' = [hist EXCEPT
                    !.seen = k.seen, !.read = k.read,
                    !.publishes = k.publishes,
                    !.publishedBy = Append(@, s)]
            /\ send' = [send EXCEPT ![s] =
                    [@ EXCEPT !.pc = "rejected",
                              !.error = IF k.thrown THEN k.exception ELSE error]]
    /\ UNCHANGED <<providers, audience, throwsOn, prepareVars, compat, persistence>>

\* A variant of reset: the status goes back to idle, the data and the error
\* of the last result stay.
Reset_KeepsResult ==
    /\ hist.last = NoCall
    /\ hist.calls < MaxCalls
    /\ LET k == setState(Closure, [ctl.state EXCEPT !.status = "idle"])
       IN  /\ ctl' = [ctl EXCEPT !.state = k.state]
           /\ hist' = [hist EXCEPT
                    !.seen = k.seen, !.read = k.read,
                    !.publishes = k.publishes,
                    !.publishedBy = Append(@, 0),
                    !.calls = @ + 1]
    /\ UNCHANGED <<providers, audience, throwsOn, send, prepareVars, compat, persistence>>

\* A variant of reset: the sends in flight are cancelled, and publish no more.
Reset_CancelsPending ==
    /\ hist.last = NoCall
    /\ hist.calls < MaxCalls
    /\ LET k == setState(Closure, createInitialAsyncState)
       IN  /\ ctl' = [ctl EXCEPT !.state = k.state]
           /\ hist' = [hist EXCEPT
                    !.seen = k.seen, !.read = k.read,
                    !.publishes = k.publishes,
                    !.publishedBy = Append(@, 0),
                    !.calls = @ + 1]
    /\ send' = [s \in Sends |->
                    IF send[s].pc = "pending" THEN [send[s] EXCEPT !.pc = "cancelled"]
                    ELSE send[s]]
    /\ UNCHANGED <<providers, audience, throwsOn, prepareVars, compat, persistence>>

\* reset(), lines 90-92.
Reset ==
    /\ hist.last = NoCall
    /\ hist.calls < MaxCalls
    /\ LET k == setState(Closure, createInitialAsyncState)
       IN  /\ ctl' = [ctl EXCEPT !.state = k.state]
           /\ hist' = [hist EXCEPT
                    !.seen = k.seen, !.read = k.read,
                    !.publishes = k.publishes,
                    !.publishedBy = Append(@, 0),
                    !.calls = @ + 1]
    /\ UNCHANGED <<providers, audience, throwsOn, send, prepareVars, compat, persistence>>

\* subscribe(listener), lines 83-84: each listener subscribes once.
Subscribe(l) ==
    /\ hist.last = NoCall
    /\ l \in audience
    /\ hist.subscribedAt[l] = -1
    /\ ctl' = [ctl EXCEPT !.listeners = Append(@, l)]
    /\ hist' = [hist EXCEPT !.subscribedAt[l] = Len(hist.publishes)]
    /\ UNCHANGED <<providers, audience, throwsOn, send, prepareVars, compat, persistence>>

\* A variant of the function subscribe returned: it empties the set.
Unsubscribe_Clears(l) ==
    /\ hist.last = NoCall
    /\ hist.subscribedAt[l] # -1
    /\ hist.unsubscribedAt[l] = -1
    /\ ctl' = [ctl EXCEPT !.listeners = << >>]
    /\ hist' = [hist EXCEPT !.unsubscribedAt[l] = Len(hist.publishes)]
    /\ UNCHANGED <<providers, audience, throwsOn, send, prepareVars, compat, persistence>>

\* The function subscribe returned, lines 85-87, called for the first time.
Unsubscribe(l) ==
    /\ hist.last = NoCall
    /\ hist.subscribedAt[l] # -1
    /\ hist.unsubscribedAt[l] = -1
    /\ ctl' = [ctl EXCEPT !.listeners = Remove(@, l)]
    /\ hist' = [hist EXCEPT !.unsubscribedAt[l] = Len(hist.publishes)]
    /\ UNCHANGED <<providers, audience, throwsOn, send, prepareVars, compat, persistence>>

\* The caller of send has seen what its call did: nothing more is remembered
\* of the call's arguments.
Forget ==
    /\ hist.last # NoCall
    /\ hist' = [hist EXCEPT !.last = NoCall]
    /\ UNCHANGED <<providers, audience, throwsOn, ctl, send, prepareVars, compat, persistence>>

ControllerNext ==
    \/ Forget
    \/ \E s \in Sends : Send(s)
    \/ \E s \in Sends : SendTransferResolves(s)
    \/ \E s \in Sends : SendTransferRejects(s)
    \/ Reset
    \/ \E l \in Listeners : Subscribe(l)
    \/ \E l \in Listeners : Unsubscribe(l)

PrepareNext ==
    \E c \in DOMAIN call :
        \/ Prepare(c)
        \/ EstimatorBlockhashResolves(c)
        \/ EstimatorBlockhashRejects(c)
        \/ SimulationResolves(c)
        \/ SimulationRejects(c)
        \/ BlockhashResolves(c)
        \/ BlockhashRejects(c)

-----------------------------------------------------------------------------
(* web3-compat: Connection.getProgramAccounts (src/connection.ts) and       *)
(* sendAndConfirmTransaction, cut at their awaits.                          *)

DEFAULT_COMMITMENT == "confirmed"

\* Lines 93-110 of connection.ts.
normalizeCommitment(commitment) ==
    IF commitment \in {"undefined", "null"} THEN "undefined"
    ELSE IF commitment = "recent" THEN "processed"
    ELSE IF commitment = "singleGossip" THEN "processed"
    ELSE IF commitment = "single" THEN "confirmed"
    ELSE IF commitment = "max" THEN "finalized"
    ELSE commitment

\* a ?? b, with "undefined" for undefined.
Coalesce(a, b) == IF a = "undefined" THEN b ELSE a

\* The second argument of getProgramAccounts: nothing, a commitment, or a
\* config with a commitment and withContext.
ProgramAccountsArguments ==
    { [t |-> "undefined", commitment |-> "undefined", withContext |-> "undefined"] }
    \cup [t : {"string"}, commitment : {"recent", "finalized"}, withContext : {"undefined"}]
    \cup [t : {"config"}, commitment : {"undefined", "max"}, withContext : OptionalBooleans]

\* An account as the RPC sends it: lamports may be a bigint.
ProgramAccountWires ==
    { [pubkey |-> "pubkey1",
       account |-> [lamports |-> [t |-> "bigint", n |-> 5], owner |-> "owner1"]],
      [pubkey |-> "pubkey2",
       account |-> [lamports |-> [t |-> "number", n |-> 7], owner |-> "owner2"]] }

ProgramAccountLists == SeqsUpTo(ProgramAccountWires, 2)

\* What rpc.getProgramAccounts(...).send() resolves with: the bare list, or
\* the list under a context.
NoContext == [apiVersion |-> "none", slot |-> [t |-> "number", n |-> 0]]

ProgramAccountsResponses ==
    [t : {"list"}, context : {NoContext}, value : ProgramAccountLists]
    \cup [t : {"contextual"},
          context : { [apiVersion |-> "2.0", slot |-> [t |-> "bigint", n |-> 9]] },
          value : ProgramAccountLists]

\* typeof result.context !== 'undefined'
hasContext(result) == result.t = "contextual"

PublicKey(text) == <<"PublicKey", text>>

\* Number(x) of a number or a bigint.
ToNumber(x) == x.n

\* Lines 117-133 and 135-156.
toAccountInfo(account) ==
    [lamports |-> ToNumber(account.lamports), owner |-> PublicKey(account.owner)]

\* Lines 353-359.
mapProgramAccount(entry) ==
    [account |-> toAccountInfo(entry.account), pubkey |-> PublicKey(entry.pubkey)]

MapAccounts(list) == [i \in 1..Len(list) |-> mapProgramAccount(list[i])]

\* Lines 319-329: withContext as the request and line 361 have it.
withContextOf(commitmentOrConfig) ==
    commitmentOrConfig.t = "config" /\ commitmentOrConfig.withContext = "true"

\* Lines 320-334: the options of the request.
programAccountsRequest(connection, commitmentOrConfig) ==
    LET localCommitment ==
            IF commitmentOrConfig.t = "undefined" THEN "undefined"
            ELSE normalizeCommitment(commitmentOrConfig.commitment)
    IN  [commitment |-> Coalesce(localCommitment,
                                 Coalesce(connection.commitment, DEFAULT_COMMITMENT)),
         withContext |-> withContextOf(commitmentOrConfig)]

NoResultContext == [apiVersion |-> "none", slot |-> 0]

\* Lines 361-372: what the method returns for an answer of the RPC. An answer
\* under a context has no map method: line 372 throws a TypeError then.
programAccountsResult(withContext, result) ==
    IF withContext /\ hasContext(result)
    THEN [threw |-> FALSE, kind |-> "contextual",
          context |-> [apiVersion |-> result.context.apiVersion,
                       slot |-> ToNumber(result.context.slot)],
          value |-> MapAccounts(result.value)]
    ELSE IF hasContext(result)
    THEN [threw |-> TRUE, kind |-> "TypeError", context |-> NoResultContext,
          value |-> << >>]
    ELSE [threw |-> FALSE, kind |-> "array", context |-> NoResultContext,
          value |-> MapAccounts(result.value)]

IdleProgramAccounts ==
    [pc |-> "idle", request |-> << >>, response |-> << >>,
     result |-> [kind |-> "none", context |-> NoResultContext, value |-> << >>],
     error |-> "none"]

\* getProgramAccounts(programId, commitmentOrConfig), lines 313-351.
GetProgramAccounts ==
    /\ compat.accounts.pc = "idle"
    /\ compat' = [compat EXCEPT
            !.accounts.pc = "requested",
            !.accounts.request =
                <<programAccountsRequest(compat.connection, compat.commitmentOrConfig)>>]
    /\ UNCHANGED <<prepareVars, controllerVars, persistence>>

\* The RPC answers: lines 351-372.
ProgramAccountsResolves ==
    /\ compat.accounts.pc = "requested"
    /\ \E response \in ProgramAccountsResponses :
        LET out == programAccountsResult(withContextOf(compat.commitmentOrConfig), response)
        IN  compat' = [compat EXCEPT
                !.accounts.response = <<response>>,
                !.accounts.pc = IF out.threw THEN "rejected" ELSE "resolved",
                !.accounts.error = IF out.threw THEN out.kind ELSE "none",
                !.accounts.result =
                    IF out.threw THEN @
                    ELSE [kind |-> out.kind, context |-> out.context, value |-> out.value]]
    /\ UNCHANGED <<prepareVars, controllerVars, persistence>>

\* The RPC fails: the await of line 351 throws.
ProgramAccountsRejects ==
    /\ compat.accounts.pc = "requested"
    /\ compat' = [compat EXCEPT !.accounts.pc = "rejected",
                                !.accounts.error = "rpc failed"]
    /\ UNCHANGED <<prepareVars, controllerVars, persistence>>

\* sendAndConfirmTransaction (utils): its options, the transaction and what
\* the connection answers.
SendAndConfirmOptions ==
    [commitment : {"undefined", "processed", "finalized"}, skipPreflight : {"undefined", "true"}]

ConnectionCommitments == {"undefined", "confirmed", "finalized"}

TransactionBytes == <<1, 2, 3>>

\* compileFromCompat: the serialized bytes as base64 text; and Buffer.from of
\* that text, which gives the bytes back.
compileFromCompat(bytes) == <<"base64", bytes>>

BufferFromBase64(text) == text[2]

TransactionSignatures == {"signature1", "signature2"}

\* What getSignatureStatuses answers for one signature: no entry, null, or a
\* status whose err is null, an object or a string.
SignatureStatusLists ==
    { << >>, << [t |-> "null", err |-> "null"] >> }
    \cup { << [t |-> "status", err |-> e] >> : e \in {"null", "InstructionError", "AccountInUse"} }

\* Connection.confirmTransaction, lines 457-460: value is response.value[0] ?? null.
confirmTransaction(statuses) ==
    [value |-> IF statuses = << >> THEN [t |-> "null", err |-> "null"] ELSE statuses[1]]

\* Line 116: confirmation.value?.err
confirmationFailed(confirmation) ==
    confirmation.value.t # "null" /\ confirmation.value.err # "null"

\* A variant of confirmCommitment: the connection's commitment comes first.
confirmCommitment_ConnectionFirst(options, connection) ==
    Coalesce(connection.commitment, Coalesce(options.commitment, "confirmed"))

\* Line 114.
confirmCommitment(options, connection) ==
    Coalesce(options.commitment, Coalesce(connection.commitment, "confirmed"))

Invocation(name, first, second) == [name |-> name, first |-> first, second |-> second]

IdleSendAndConfirm ==
    [pc |-> "idle", invocations |-> << >>, signature |-> "none",
     confirmation |-> << >>, result |-> "none", error |-> "none"]

\* sendAndConfirmTransaction(connection, transaction, signers, options), lines
\* 110-113, up to the await.
SendAndConfirmTransaction ==
    /\ compat.sending.pc = "idle"
    /\ LET serialized == compileFromCompat(TransactionBytes)
           raw == BufferFromBase64(serialized)
       IN  compat' = [compat EXCEPT
                !.sending.pc = "sending",
                !.sending.invocations =
                    Append(@, Invocation("sendRawTransaction", raw, compat.options))]
    /\ UNCHANGED <<prepareVars, controllerVars, persistence>>

\* sendRawTransaction resolves: lines 113-115, up to the second await.
SendRawTransactionResolves ==
    /\ compat.sending.pc = "sending"
    /\ \E signature \in TransactionSignatures :
        compat' = [compat EXCEPT
            !.sending.pc = "confirming",
            !.sending.signature = signature,
            !.sending.invocations =
                Append(@, Invocation("confirmTransaction", signature,
                                     confirmCommitment(compat.options, compat.connection)))]
    /\ UNCHANGED <<prepareVars, controllerVars, persistence>>

\* sendRawTransaction rejects: the await of line 113 throws.
SendRawTransactionRejects ==
    /\ compat.sending.pc = "sending"
    /\ compat' = [compat EXCEPT !.sending.pc = "rejected",
                                !.sending.error = "send failed"]
    /\ UNCHANGED <<prepareVars, controllerVars, persistence>>

\* confirmTransaction resolves: lines 115-119.
ConfirmTransactionResolves ==
    /\ compat.sending.pc = "confirming"
    /\ \E statuses \in SignatureStatusLists :
        LET confirmation == confirmTransaction(statuses)
        IN  compat' = [compat EXCEPT
                !.sending.confirmation = <<confirmation>>,
                !.sending.pc = IF confirmationFailed(confirmation)
                               THEN "rejected" ELSE "resolved",
                !.sending.error = IF confirmationFailed(confirmation)
                                  THEN "Transaction failed" ELSE @,
                !.sending.result = IF confirmationFailed(confirmation)
                                   THEN @ ELSE compat.sending.signature]
    /\ UNCHANGED <<prepareVars, controllerVars, persistence>>

\* confirmTransaction rejects: the await of line 115 throws.
ConfirmTransactionRejects ==
    /\ compat.sending.pc = "confirming"
    /\ compat' = [compat EXCEPT !.sending.pc = "rejected",
                                !.sending.error = "confirm failed"]
    /\ UNCHANGED <<prepareVars, controllerVars, persistence>>

CompatNext ==
    \/ GetProgramAccounts
    \/ ProgramAccountsResolves
    \/ ProgramAccountsRejects
    \/ SendAndConfirmTransaction
    \/ SendRawTransactionResolves
    \/ SendRawTransactionRejects
    \/ ConfirmTransactionResolves
    \/ ConfirmTransactionRejects

\* No call made with the connection.
CompatIdle ==
    compat = [connection |-> [commitment |-> "undefined"],
              commitmentOrConfig |->
                [t |-> "undefined", commitment |-> "undefined", withContext |-> "undefined"],
              options |-> [commitment |-> "undefined", skipPreflight |-> "undefined"],
              accounts |-> IdleProgramAccounts,
              sending |-> IdleSendAndConfirm]

-----------------------------------------------------------------------------
(* react-hooks, SolanaProvider.tsx: the WalletPersistence component. A     *)
(* render hands the component the value of useWallet() and its props; the  *)
(* effects whose dependencies changed then run in the order they are       *)
(* declared. The auto-connect effect only reads the storage (getItem) and  *)
(* calls connectWallet; what the wallet does then is a later wallet state. *)

DEFAULT_STORAGE_KEY == "solana:last-connector"

\* The statuses of a wallet state; connectorId is "undefined" where the
\* state has no such key.
WalletStatuses == {"disconnected", "connecting", "connected"}

ConnectorIds == {"undefined", "", "phantom"}

WalletStates == [status : WalletStatuses, connectorId : ConnectorIds]

\* The storage prop: absent, null, or an adapter.
StorageProps == {"undefined", "null", "memory"}

\* globalThis.localStorage, where there is one.
GlobalStorages == {"undefined", "localStorage"}

\* The storageKey prop.
StorageKeyProps == {"undefined", "app:connector"}

\* storageKey = DEFAULT_STORAGE_KEY in the parameter list.
storageKeyOf(storageKey) ==
    IF storageKey = "undefined" THEN DEFAULT_STORAGE_KEY ELSE storageKey

getDefaultStorage(global) ==
    IF global = "undefined" THEN "null" ELSE global

\* storage ?? getDefaultStorage()
activeStorageOf(storage, global) ==
    IF storage \in {"undefined", "null"} THEN getDefaultStorage(global) ELSE storage

StorageCall(method, storage, key, value) ==
    [method |-> method, storage |-> storage, key |-> key, value |-> value]

\* safelyWrite: the writer is called, and what it throws is swallowed.
safelyWrite(p, writer) == [p EXCEPT !.log = Append(@, writer)]

\* A variant that removes the key whenever the wallet is disconnected.
persistConnector_RemovesWhenDisconnected(p, wallet, storageKey) ==
    LET activeStorage == p.storageRef IN
    IF activeStorage = "null" THEN p
    ELSE IF Truthy(wallet.connectorId)
    THEN [safelyWrite(p, StorageCall("setItem", activeStorage, storageKey, wallet.connectorId))
            EXCEPT !.hasPersistedConnectorRef = TRUE]
    ELSE IF wallet.status = "disconnected"
    THEN [safelyWrite(p, StorageCall("removeItem", activeStorage, storageKey, "undefined"))
            EXCEPT !.hasPersistedConnectorRef = FALSE]
    ELSE p

\* The effect of dependencies [storageKey, wallet].
persistConnector(p, wallet, storageKey) ==
    LET activeStorage == p.storageRef IN
    IF activeStorage = "null" THEN p
    ELSE IF Truthy(wallet.connectorId)
    THEN [safelyWrite(p, StorageCall("setItem", activeStorage, storageKey, wallet.connectorId))
            EXCEPT !.hasPersistedConnectorRef = TRUE]
    ELSE IF wallet.status = "disconnected" /\ p.hasPersistedConnectorRef
    THEN [safelyWrite(p, StorageCall("removeItem", activeStorage, storageKey, "undefined"))
            EXCEPT !.hasPersistedConnectorRef = FALSE]
    ELSE p

\* The effect of dependencies [storage].
refreshStorage(p, storage) ==
    [p EXCEPT !.storageRef = activeStorageOf(storage, p.global)]

\* The component before its first render.
Unmounted(global) ==
    [mounted |-> FALSE,
     renders |-> 0,
     global |-> global,
     wallet |-> [status |-> "disconnected", connectorId |-> "undefined"],
     storage |-> "undefined",
     storageKey |-> "undefined",
     storageRef |-> "null",
     hasPersistedConnectorRef |-> FALSE,
     ran |-> FALSE,
     log |-> << >>]

\* One render and its commit. fresh: useWallet() returned a new object; the
\* same object is the same wallet state.
Render(wallet, fresh, storage, storageKey) ==
    /\ persistence.renders < MaxRenders
    /\ (persistence.mounted /\ ~fresh) => wallet = persistence.wallet
    /\ LET first == ~persistence.mounted
           storageChanged == first \/ storage # persistence.storage
           walletChanged == first \/ fresh
           keyChanged ==
               first \/ storageKeyOf(storageKey) # storageKeyOf(persistence.storageKey)
           rendered == [persistence EXCEPT !.mounted = TRUE,
                                           !.renders = @ + 1,
                                           !.wallet = wallet,
                                           !.storage = storage,
                                           !.storageKey = storageKey,
                                           !.ran = walletChanged \/ keyChanged]
           withStorage == IF storageChanged THEN refreshStorage(rendered, storage)
                          ELSE rendered
       IN persistence' =
            IF walletChanged \/ keyChanged
            THEN persistConnector(withStorage, wallet, storageKeyOf(storageKey))
            ELSE withStorage
    /\ UNCHANGED <<prepareVars, controllerVars, compat>>

PersistenceNext ==
    \E wallet \in WalletStates, fresh \in BOOLEAN,
       storage \in StorageProps, storageKey \in StorageKeyProps :
        Render(wallet, fresh, storage, storageKey)

\* No WalletPersistence is mounted.
PersistenceIdle == persistence = Unmounted("undefined")

\* The preparation pipeline at rest, while the controller runs.
PrepareIdle ==
    /\ input = [instructions |-> << >>, lifetimeConstraint |-> "undefined"]
    /\ config = [c \in Calls |->
                    [computeUnitLimitMultiplier |-> [t |-> "undefined", num |-> 0, den |-> 1],
                     computeUnitLimitReset |-> "undefined",
                     blockhashReset |-> "undefined",
                     logRequest |-> FALSE,
                     rpc |-> CHOOSE r \in Rpcs : TRUE]]
    /\ call = [c \in Calls |-> IdleCall]

\* A controller whose listeners return normally: one built with any
\* providers and observed by one listener, or one built with both providers
\* and observed by two.
ControllerInit ==
    /\ PrepareIdle
    /\ \/ /\ providers \in [authorityProvider : AuthorityProviders,
                            sourceOwnerProvider : SourceOwnerProviders]
          /\ audience = {"l1"}
       \/ /\ providers = [authorityProvider |-> "authority:provider",
                          sourceOwnerProvider |-> "owner:provider"]
          /\ audience = Listeners
    /\ throwsOn = [l \in Listeners |-> {}]
    /\ ControllerIdle
    /\ CompatIdle
    /\ PersistenceIdle

SpecController == ControllerInit /\ [][ControllerNext]_vars

-----------------------------------------------------------------------------
(* A controller built with both providers and observed by one listener,    *)
(* which may throw when it is notified of some statuses.                   *)

ThrowingHabits == { {}, {"loading"}, {"success"}, {"error"}, {"success", "error"} }

ThrowingInit ==
    /\ PrepareIdle
    /\ providers = [authorityProvider |-> "authority:provider",
                    sourceOwnerProvider |-> "owner:provider"]
    /\ audience = {"l1"}
    /\ \E habit \in ThrowingHabits :
          throwsOn = [l \in Listeners |-> IF l = "l1" THEN habit ELSE {}]
    /\ ControllerIdle
    /\ CompatIdle
    /\ PersistenceIdle

SpecThrowing == ThrowingInit /\ [][ControllerNext]_vars

-----------------------------------------------------------------------------
(* The preparation pipeline: one call on any input message, with any       *)
(* options and any answers of the RPC. The controller is at rest.          *)

Init ==
    /\ input \in InputMessages
    /\ config \in [Calls -> Configs]
    /\ call = [c \in Calls |-> IdleCall]
    /\ providers = [authorityProvider |-> "absent", sourceOwnerProvider |-> "absent"]
    /\ audience = {}
    /\ throwsOn = [l \in Listeners |-> {}]
    /\ ControllerIdle
    /\ CompatIdle
    /\ PersistenceIdle

Next == PrepareNext

Spec == Init /\ [][Next]_vars

-----------------------------------------------------------------------------
(* Two calls of prepareTransaction on one message, each with options and   *)
(* an RPC of its own, running one into the other.                          *)

SharedCalls == {"p1", "p2"}

SharedInputMessages ==
    [instructions :
        { <<[programAddress |-> PROGRAM_ADDRESS, data |-> <<1>>]>>,
          <<getSetComputeUnitLimitInstruction(100000),
            [programAddress |-> PROGRAM_ADDRESS, data |-> <<1>>]>> },
     lifetimeConstraint : {"undefined", StaleLifetime}]

SharedConfigs ==
    [computeUnitLimitMultiplier :
        { [t |-> "undefined", num |-> 0, den |-> 1], [t |-> "number", num |-> 2, den |-> 1] },
     computeUnitLimitReset : {"undefined", "true"},
     blockhashReset : {"undefined", "false"},
     logRequest : {FALSE},
     rpc : SharedRpcs]

InitShared ==
    /\ input \in SharedInputMessages
    /\ config \in [SharedCalls -> SharedConfigs]
    /\ call = [c \in SharedCalls |-> IdleCall]
    /\ providers = [authorityProvider |-> "absent", sourceOwnerProvider |-> "absent"]
    /\ audience = {}
    /\ throwsOn = [l \in Listeners |-> {}]
    /\ ControllerIdle
    /\ CompatIdle
    /\ PersistenceIdle

SpecShared == InitShared /\ [][Next]_vars

-----------------------------------------------------------------------------
(* Two calls of prepareTransaction on one message with the same options,   *)
(* each with an RPC of its own: the two RPCs answer the same blockhash and *)
(* each answers one simulation response, with its units consumed, its err  *)
(* and its logs.                                                           *)

TwinSimulationValues ==
    [unitsConsumed : { [t |-> "null", n |-> 0], [t |-> "number", n |-> 500000] },
     err : {"null", "InstructionError"},
     logs : { << >>, <<"Program log: failed">> }]

TwinRpcs ==
    [getLatestBlockhash : {{"abc"}},
     getLatestBlockhashError : {{<<"solana">>}},
     simulateTransaction : { {value} : value \in TwinSimulationValues },
     simulateTransactionError : {{<<"plain">>}}]

InitTwin ==
    /\ input \in SharedInputMessages
    /\ \E options \in SharedConfigs, first \in TwinRpcs, second \in TwinRpcs :
          config = [c \in SharedCalls |->
                      [options EXCEPT !.rpc = IF c = "p1" THEN first ELSE second]]
    /\ call = [c \in SharedCalls |-> IdleCall]
    /\ providers = [authorityProvider |-> "absent", sourceOwnerProvider |-> "absent"]
    /\ audience = {}
    /\ throwsOn = [l \in Listeners |-> {}]
    /\ ControllerIdle
    /\ CompatIdle
    /\ PersistenceIdle

SpecTwin == InitTwin /\ [][Next]_vars

-----------------------------------------------------------------------------
(* web3-compat: one call of getProgramAccounts and one of                  *)
(* sendAndConfirmTransaction on a connection, with any arguments and any   *)
(* answers.                                                                *)

InitCompat ==
    /\ PrepareIdle
    /\ providers = [authorityProvider |-> "absent", sourceOwnerProvider |-> "absent"]
    /\ audience = {}
    /\ throwsOn = [l \in Listeners |-> {}]
    /\ ControllerIdle
    /\ compat \in [connection : [commitment : ConnectionCommitments],
                    commitmentOrConfig : ProgramAccountsArguments,
                    options : SendAndConfirmOptions,
                    accounts : {IdleProgramAccounts},
                    sending : {IdleSendAndConfirm}]
    /\ PersistenceIdle

SpecCompat == InitCompat /\ [][CompatNext]_vars

-----------------------------------------------------------------------------
(* react-hooks: a WalletPersistence component rendered with any wallet     *)
(* states and props, with or without a localStorage.                       *)

InitPersistence ==
    /\ PrepareIdle
    /\ providers = [authorityProvider |-> "absent", sourceOwnerProvider |-> "absent"]
    /\ audience = {}
    /\ throwsOn = [l \in Listeners |-> {}]
    /\ ControllerIdle
    /\ CompatIdle
    /\ \E global \in GlobalStorages : persistence = Unmounted(global)

SpecPersistence == InitPersistence /\ [][PersistenceNext]_vars

-----------------------------------------------------------------------------
(* Properties of the preparation pipeline. They read the input, the        *)
(* options and what the call has done; what they expect is stated with     *)
(* numbers and positions of their own, not with the operators above.       *)

\* A set-compute-unit-limit instruction: compute-budget program, first byte 2.
IsSetComputeUnitLimit(instruction) ==
    /\ instruction.programAddress = "ComputeBudget111111111111111111111111111111"
    /\ Len(instruction.data) > 0
    /\ instruction.data[1] = 2

LimitPositions(instructions) ==
    { i \in 1..Len(instructions) : IsSetComputeUnitLimit(instructions[i]) }

FirstLimitPosition(instructions) ==
    CHOOSE i \in LimitPositions(instructions) :
        \A j \in LimitPositions(instructions) : i <= j

\* The estimator runs: no such instruction yet, or a reset is asked for.
EstimationRuns(c) ==
    LimitPositions(input.instructions) = {} \/ config[c].computeUnitLimitReset = "true"

\* The call has written its compute-budget instruction.
HasWritten(c) ==
    /\ call[c].estimate # -1
    /\ call[c].pc \in {"blockhash", "resolved", "rejected"}

\* Where the call writes: at the first existing one, or else at the end.
WrittenPosition(c) ==
    IF LimitPositions(input.instructions) = {}
    THEN Len(input.instructions) + 1
    ELSE FirstLimitPosition(input.instructions)

\* The units the written instruction declares.
DeclaredUnits(c) == call[c].transaction.instructions[WrittenPosition(c)].data[2]

EventsOf(c, type, name) ==
    { i \in 1..Len(call[c].events) :
        call[c].events[i].type = type /\ call[c].events[i].name = name }

Requested(c, name) == EventsOf(c, "request", name) # {}

Contains(error, link) == \E i \in 1..Len(error) : error[i] = link

\* The multiplier in force, as a fraction.
MultiplierNum(c) ==
    IF config[c].computeUnitLimitMultiplier.t = "undefined" THEN 11
    ELSE config[c].computeUnitLimitMultiplier.num

MultiplierDen(c) ==
    IF config[c].computeUnitLimitMultiplier.t = "undefined" THEN 10
    ELSE config[c].computeUnitLimitMultiplier.den

\* ceil(u * multiplier), and its clamp to [200,000, 1,400,000].
CeilOfProduct(u, c) == (u * MultiplierNum(c) + MultiplierDen(c) - 1) \div MultiplierDen(c)

Clamp(x) == IF x < 200000 THEN 200000 ELSE IF x > 1400000 THEN 1400000 ELSE x

\* C1: whenever simulateTransaction rejects with an error whose cause chain
\* contains the compute-budget-exceeded kind, the call does not reject because
\* of it and the instruction it writes declares exactly 1,400,000 units,
\* whatever the multiplier.
C1_BudgetExceededDeclaresMaximum ==
    \A c \in Calls :
        Contains(call[c].simulationError, "budget") =>
            /\ HasWritten(c)
            /\ DeclaredUnits(c) = 1400000

\* C2: when the simulation resolves with unitsConsumed = u (a number, null or
\* absent, the last two counting as 0), the written instruction declares
\* clamp(ceil(u * multiplier), 200,000, 1,400,000).
C2_UnitsAreClampedProduct ==
    \A c \in Calls :
        (/\ HasWritten(c)
         /\ call[c].simulationValues # << >>
         /\ call[c].simulationValues[1].unitsConsumed.t \in {"number", "null", "undefined"})
        => LET consumed == call[c].simulationValues[1].unitsConsumed
               u == IF consumed.t = "number" THEN consumed.n ELSE 0
           IN  DeclaredUnits(c) = Clamp(CeilOfProduct(u, c))

\* C2's case: 500,000 units consumed, default multiplier: 550,000 declared,
\* between the floor and the ceiling.
C2_Witness ==
    \E c \in Calls :
        /\ call[c].pc = "resolved"
        /\ call[c].simulationValues # << >>
        /\ call[c].simulationValues[1].unitsConsumed = [t |-> "number", n |-> 500000]
        /\ config[c].computeUnitLimitMultiplier.t = "undefined"
        /\ DeclaredUnits(c) = 550000

\* C3: with a set-compute-unit-limit instruction in the input and
\* computeUnitLimitReset unset or false, simulateTransaction is never
\* requested and the instructions stay those of the input, in the same order.
C3_ExistingLimitIsKept ==
    \A c \in Calls :
        (/\ LimitPositions(input.instructions) # {}
         /\ config[c].computeUnitLimitReset \in {"undefined", "false"}
         /\ call[c].pc # "idle")
        => /\ ~Requested(c, "simulateTransaction")
           /\ call[c].simulated = << >>
           /\ call[c].transaction.instructions = input.instructions
           /\ call[c].pc = "resolved" => call[c].result.instructions = input.instructions

\* C3's case: such a call has returned, with another lifetime than the input's.
C3_Witness ==
    \E c \in Calls :
        /\ LimitPositions(input.instructions) # {}
        /\ config[c].computeUnitLimitReset = "undefined"
        /\ call[c].pc = "resolved"
        /\ call[c].result.instructions = input.instructions
        /\ call[c].result.lifetimeConstraint # input.lifetimeConstraint

\* C4: the written instruction is appended when the input had none, and takes
\* the place of the existing one otherwise; every other instruction is kept in
\* place, and the list grows by one only when appending.
C4_AppendOrReplaceInPlace ==
    \A c \in Calls :
        HasWritten(c) =>
            LET before == input.instructions
                after == call[c].transaction.instructions
            IN  /\ IsSetComputeUnitLimit(after[WrittenPosition(c)])
                /\ \A i \in 1..Len(before) :
                        i # WrittenPosition(c) => after[i] = before[i]
                /\ Len(after) =
                        IF LimitPositions(before) = {} THEN Len(before) + 1 ELSE Len(before)
                /\ LimitPositions(before) = {} => WrittenPosition(c) = Len(after)
                /\ call[c].pc = "resolved" => call[c].result.instructions = after

\* C4's case: the existing instruction came first, another one after it, and
\* the new one (with other units) has taken the first place.
C4_Witness ==
    \E c \in Calls :
        /\ call[c].pc = "resolved"
        /\ Len(input.instructions) = 2
        /\ IsSetComputeUnitLimit(input.instructions[1])
        /\ ~IsSetComputeUnitLimit(input.instructions[2])
        /\ IsSetComputeUnitLimit(call[c].result.instructions[1])
        /\ call[c].result.instructions[1] # input.instructions[1]
        /\ call[c].result.instructions[2] = input.instructions[2]

\* C5: a call that resolves returns a lifetime constraint; if it fetched a
\* blockhash, the constraint is the last one fetched; and with a stale
\* constraint and blockhashReset not given it does fetch one.
C5_LifetimeIsLastFetched ==
    \A c \in Calls :
        call[c].pc = "resolved" =>
            LET fetched == call[c].fetched
            IN  /\ call[c].result.lifetimeConstraint \notin {"undefined", "none"}
                /\ fetched # << >> =>
                        call[c].result.lifetimeConstraint = fetched[Len(fetched)]
                /\ Len(fetched) = Cardinality(EventsOf(c, "resolve", "getLatestBlockhash"))
                /\ (input.lifetimeConstraint = "stale"
                        /\ config[c].blockhashReset = "undefined")
                   => /\ fetched # << >>
                      /\ call[c].result.lifetimeConstraint \in {"abc", "def"}

\* C5's case: the input was stale, blockhashReset was not given, and the call
\* returned the fetched constraint.
C5_Witness ==
    \E c \in Calls :
        /\ call[c].pc = "resolved"
        /\ input.lifetimeConstraint = "stale"
        /\ config[c].blockhashReset = "undefined"
        /\ call[c].fetched = <<"def">>
        /\ call[c].result.lifetimeConstraint = "def"

\* C6: with a lifetime constraint in the input and blockhashReset false,
\* getLatestBlockhash is never requested, by Step B or by the estimator, and
\* the constraint returned is the input's.
C6_NoResetKeepsLifetime ==
    \A c \in Calls :
        (input.lifetimeConstraint = "stale" /\ config[c].blockhashReset = "false")
        => /\ ~Requested(c, "getLatestBlockhash")
           /\ call[c].fetched = << >>
           /\ call[c].pc = "resolved" => call[c].result.lifetimeConstraint = "stale"

\* C6's case: such a call has run the estimator and returned.
C6_Witness ==
    \E c \in Calls :
        /\ input.lifetimeConstraint = "stale"
        /\ config[c].blockhashReset = "false"
        /\ Requested(c, "simulateTransaction")
        /\ call[c].pc = "resolved"
        /\ call[c].result.lifetimeConstraint = "stale"

StepRank(step) == IF step = "A" THEN 1 ELSE IF step = "B" THEN 2 ELSE 3

\* C7: the requests of Step A are answered before Step B requests its
\* blockhash (at any time at most one request is unanswered, and the steps
\* come in the order A, B, C); logRequest, when given, is called once, last,
\* with the base64 form of the message returned; it is not called by a call
\* that rejects.
C7_StepsInOrderAndOneLog ==
    \A c \in Calls :
        LET events == call[c].events
            logs == EventsOf(c, "call", "logRequest")
        IN  /\ \A i, j \in 1..Len(events) :
                    i < j => StepRank(events[i].step) <= StepRank(events[j].step)
            /\ \A i \in 1..Len(events) :
                    (events[i].type = "request" /\ i < Len(events))
                    => /\ events[i + 1].type \in {"resolve", "reject"}
                       /\ events[i + 1].name = events[i].name
                       /\ events[i + 1].step = events[i].step
            /\ \A i \in EventsOf(c, "request", "getLatestBlockhash") :
               \A j \in EventsOf(c, "request", "simulateTransaction") :
                    events[i].step = "A" => i < j
            /\ Len(call[c].logged) = Cardinality(logs)
            /\ call[c].pc # "resolved" => logs = {}
            /\ call[c].pc = "resolved" =>
                    IF config[c].logRequest
                    THEN /\ logs = {Len(events)}
                         /\ call[c].logged = <<transactionToBase64(call[c].result)>>
                    ELSE logs = {}

\* C7's case: a call that fetched for the estimator, simulated, fetched again
\* in Step B and then called logRequest.
C7_Witness ==
    \E c \in Calls :
        /\ call[c].pc = "resolved"
        /\ Len(call[c].events) = 7
        /\ call[c].events[7] = [type |-> "call", name |-> "logRequest", step |-> "C"]
        /\ call[c].fetched = <<"abc", "def">>

\* C8: when the estimator's getLatestBlockhash fails, or simulateTransaction
\* fails with an error that has no budget-exceeded cause, or Step B's
\* getLatestBlockhash fails, the call rejects with that very error, requests
\* nothing more and returns no message.
C8_RpcFailurePropagates ==
    \A c \in Calls :
        LET events == call[c].events
            failures ==
                EventsOf(c, "reject", "getLatestBlockhash")
                \cup (IF Contains(call[c].simulationError, "budget") THEN {}
                      ELSE EventsOf(c, "reject", "simulateTransaction"))
        IN  \A i \in failures :
                /\ i = Len(events)
                /\ call[c].pc = "rejected"
                /\ call[c].error =
                        IF events[i].name = "simulateTransaction"
                        THEN call[c].simulationError ELSE call[c].blockhashError
                /\ call[c].error # NoError
                /\ call[c].result = NoMessage
                /\ call[c].logged = << >>

\* C8's case: the simulation failed with a SolanaError of another kind, after
\* the estimator had fetched a blockhash, and the call rejected with it.
C8_Witness ==
    \E c \in Calls :
        /\ call[c].pc = "rejected"
        /\ call[c].simulationError = <<"solana", "solana">>
        /\ call[c].error = <<"solana", "solana">>
        /\ Len(call[c].events) = 4

-----------------------------------------------------------------------------
(* Properties of the controller.                                           *)

\* The message has the word, or the two words one after the other.
Mentions(message, word) == \E i \in 1..Len(message) : message[i] = word

MentionsBoth(message, first, second) ==
    \E i \in 1..(Len(message) - 1) : message[i] = first /\ message[i + 1] = second

\* What a field resolves to: the input's value if it gives one, or else what
\* the provider answers, if there is a provider.
ResolvedField(given, provider) ==
    IF given # "undefined" THEN given
    ELSE IF provider = "absent" THEN "undefined"
    ELSE provider

Missing(value) == value \in {"undefined", ""}

AuthorityMissing(inputConfig) ==
    Missing(ResolvedField(inputConfig.authority, providers.authorityProvider))

SourceOwnerMissing(inputConfig) ==
    Missing(ResolvedField(inputConfig.sourceOwner, providers.sourceOwnerProvider))

\* Listener l was subscribed before publish number first and has not
\* unsubscribed before publish number last.
SubscribedOver(l, first, last) ==
    /\ hist.subscribedAt[l] # -1
    /\ hist.subscribedAt[l] < first
    /\ hist.unsubscribedAt[l] = -1 \/ hist.unsubscribedAt[l] >= last

C10_MissingFieldRejects ==
    [][ (hist'.last # hist.last /\ hist'.last.by # 0
            /\ (AuthorityMissing(hist'.last.input) \/ SourceOwnerMissing(hist'.last.input)))
        => /\ hist'.last.rejected
           /\ ~hist'.last.invoked
           /\ IF AuthorityMissing(hist'.last.input)
              THEN Mentions(hist'.last.error, "authority")
              ELSE /\ MentionsBoth(hist'.last.error, "source", "owner")
                   /\ ~Mentions(hist'.last.error, "authority")
           /\ ctl' = ctl
           /\ send' = send
           /\ hist'.invoked = hist.invoked
           /\ hist'.publishes = hist.publishes
           /\ hist'.seen = hist.seen ]_vars

\* C10's case: the provider gave the authority, the source owner was missing,
\* and the send was rejected for it while another send was pending and a
\* listener was subscribed.
C10_Witness ==
    /\ hist.last.by # 0
    /\ hist.last.rejected
    /\ hist.last.input.authority = "undefined"
    /\ ~AuthorityMissing(hist.last.input)
    /\ SourceOwnerMissing(hist.last.input)
    /\ MentionsBoth(hist.last.error, "source", "owner")
    /\ ctl.state.status = "loading"
    /\ ctl.listeners # << >>

\* How many times x occurs in the sequence.
Occurrences(seq, x) == Cardinality({ i \in 1..Len(seq) : seq[i] = x })

\* The positions of the publishes made by send call s.
PublishesOf(s) == { i \in 1..Len(hist.publishedBy) : hist.publishedBy[i] = s }

ListedChange(from, to) ==
    \/ from = "idle" /\ to = "loading"
    \/ from = "loading" /\ to \in {"success", "error"}
    \/ from \in {"success", "error"} /\ to = "loading"
    \/ to = "idle"

\* Send call s starts, settles, in this step; a reset is made in this step.
Starts(s) == send[s].pc = "idle" /\ send'[s].pc = "pending"

Settles(s) == send[s].pc = "pending" /\ send'[s].pc \in {"resolved", "rejected"}

Resets == hist'.publishedBy = Append(hist.publishedBy, 0)

\* The last publish was made by send call s.
LastPublishBy(s) ==
    hist.publishedBy # << >> /\ hist.publishedBy[Len(hist.publishedBy)] = s

\* C12 as stated: over any sends and resets, overlapping ones too, every
\* change of the status is one of the listed changes.
C12_EveryChangeIsListed ==
    [][ ctl'.state.status # ctl.state.status
        => ListedChange(ctl.state.status, ctl'.state.status) ]_vars

\* C12 as amended: the status changes to loading only when a send starts, to
\* idle only by reset, to success or error only when a pending send settles,
\* as resolved or rejected; and a change that is not listed is made only by a
\* send that settles when the last publish is not its own.
C12_ChangesAreListedOrLateSettles ==
    [][ ctl'.state.status # ctl.state.status
        => /\ ctl'.state.status = "loading" => \E s \in Sends : Starts(s)
           /\ ctl'.state.status = "idle" => Resets
           /\ ctl'.state.status = "success" =>
                \E s \in Sends : Settles(s) /\ send'[s].pc = "resolved"
           /\ ctl'.state.status = "error" =>
                \E s \in Sends : Settles(s) /\ send'[s].pc = "rejected"
           /\ ~ListedChange(ctl.state.status, ctl'.state.status) =>
                \E s \in Sends : Settles(s) /\ ~LastPublishBy(s) ]_vars

\* C12's case: a send, a reset while its transfer is pending, and the transfer
\* resolves: the status went from idle to success.
C12_Witness ==
    /\ hist.publishedBy = <<1, 0, 1>>
    /\ hist.publishes[2].status = "idle"
    /\ ctl.state.status = "success"
    /\ send[1].pc = "resolved"

\* The calls of helper.sendTransfer made for send call s.
TransfersOf(s) == { i \in 1..Len(hist.transfers) : hist.transfers[i].by = s }

C14_ResetPublishesInitialIdle ==
    [][ Resets
        => /\ ctl'.state = [status |-> "idle", data |-> << >>, error |-> << >>]
           /\ ctl'.listeners = ctl.listeners
           /\ hist'.publishes = Append(hist.publishes, ctl'.state)
           /\ hist'.invoked = hist.invoked
           /\ hist'.transfers = hist.transfers
           /\ send' = send
           /\ \A l \in Listeners :
                hist'.read[l] =
                    IF \E i \in 1..Len(ctl.listeners) : ctl.listeners[i] = l
                    THEN Append(hist.read[l], ctl'.state)
                    ELSE hist.read[l] ]_vars

\* C14's case: a reset made from the error state of a failed send, seen by a
\* listener; the error is gone.
C14_Witness ==
    /\ hist.publishedBy = <<1, 1, 0>>
    /\ hist.publishes[2] =
            [status |-> "error", data |-> << >>, error |-> <<"transfer failed", 1>>]
    /\ send[1].pc = "rejected"
    /\ ctl.state = [status |-> "idle", data |-> << >>, error |-> << >>]
    /\ hist.read["l1"] = hist.publishes

\* The publishes a listener has to be called for: those made after it
\* subscribed and, if it has unsubscribed, before it did.
PublishesFor(l) ==
    IF hist.subscribedAt[l] = -1 THEN << >>
    ELSE SubSeq(hist.publishes, hist.subscribedAt[l] + 1,
                IF hist.unsubscribedAt[l] = -1 THEN Len(hist.publishes)
                ELSE hist.unsubscribedAt[l])

\* The function subscribe(l) returned is called in this step.
Unsubscribes(l) == hist.unsubscribedAt[l] = -1 /\ hist'.unsubscribedAt[l] # -1

\* C15: a listener is called for the publishes made while it is subscribed,
\* each once, and for none made after its unsubscribe function was called,
\* whatever the other listeners do; and a call of the unsubscribe function of
\* l takes l out of the set and leaves the state, the other listeners and
\* their order, and what was published and heard as they were.
C15_UnsubscribeStopsOnlyThatListener ==
    [][ /\ \A l \in Listeners : hist'.read[l] = PublishesFor(l)'
        /\ \A l \in Listeners :
            Unsubscribes(l)
            => /\ ctl'.state = ctl.state
               /\ ctl'.listeners = SelectSeq(ctl.listeners, LAMBDA m : m # l)
               /\ hist'.publishes = hist.publishes
               /\ hist'.read = hist.read
               /\ send' = send ]_vars

\* C15's case: two listeners subscribed, l1 unsubscribed after the first
\* publish, and l2 alone heard the second.
C15_Witness ==
    /\ hist.subscribedAt["l1"] = 0
    /\ hist.unsubscribedAt["l1"] = 1
    /\ hist.subscribedAt["l2"] = 0
    /\ hist.unsubscribedAt["l2"] = -1
    /\ Len(hist.publishes) = 2
    /\ hist.read["l1"] = <<hist.publishes[1]>>
    /\ hist.read["l2"] = hist.publishes
    /\ ctl.listeners = <<"l2">>

\* A state is published in this step.
Publishes == Len(hist'.publishes) = Len(hist.publishes) + 1

IsSubscribed(l) == \E i \in 1..Len(ctl.listeners) : ctl.listeners[i] = l

C17_FieldsFromInputElseProvider ==
    hist.last.by # 0
    => /\ Mentions(hist.last.called, "authorityProvider") =>
            /\ hist.last.input.authority = "undefined"
            /\ providers.authorityProvider # "absent"
       /\ Mentions(hist.last.called, "sourceOwnerProvider") =>
            /\ hist.last.input.sourceOwner = "undefined"
            /\ providers.sourceOwnerProvider # "absent"
       /\ Occurrences(hist.last.called, "authorityProvider") <= 1
       /\ Occurrences(hist.last.called, "sourceOwnerProvider") <= 1
       /\ hist.last.invoked =>
            /\ hist.last.config.authority =
                    IF hist.last.input.authority # "undefined"
                    THEN hist.last.input.authority
                    ELSE providers.authorityProvider
            /\ hist.last.config.sourceOwner =
                    IF hist.last.input.sourceOwner # "undefined"
                    THEN hist.last.input.sourceOwner
                    ELSE providers.sourceOwnerProvider
            /\ hist.last.input.authority = "undefined" =>
                    Mentions(hist.last.called, "authorityProvider")
            /\ hist.last.input.sourceOwner = "undefined" =>
                    Mentions(hist.last.called, "sourceOwnerProvider")
            /\ hist.last.config.amount = hist.last.input.amount
            /\ hist.last.passed = hist.last.options

\* C17's case: the input gives the source owner and not the authority, the
\* controller has both providers, and the transfer was invoked with the
\* provider's authority and the input's source owner, and with the options.
C17_Witness ==
    /\ hist.last.by # 0
    /\ hist.last.invoked
    /\ hist.last.input = [amount |-> 2, authority |-> "undefined", sourceOwner |-> "owner:input"]
    /\ providers = [authorityProvider |-> "authority:provider",
                    sourceOwnerProvider |-> "owner:provider"]
    /\ hist.last.called = <<"authorityProvider">>
    /\ hist.last.config = [amount |-> 2, authority |-> "authority:provider",
                           sourceOwner |-> "owner:input"]
    /\ hist.last.options = "options"
    /\ hist.last.passed = "options"

\* What a call returns when it runs alone on the message it was given, with
\* its options and the answers its RPC gave: the units it declares, the
\* instructions and the lifetime constraint.
UnitsAlone(c) ==
    LET u == IF call[c].simulationValues = << >> THEN 1400000
             ELSE IF call[c].simulationValues[1].unitsConsumed.t = "number"
             THEN call[c].simulationValues[1].unitsConsumed.n
             ELSE 0
    IN  Clamp(CeilOfProduct(u, c))

InstructionsAlone(c) ==
    LET given == call[c].given.instructions
        limit == [programAddress |-> "ComputeBudget111111111111111111111111111111",
                  data |-> <<2, UnitsAlone(c)>>]
    IN  IF LimitPositions(given) = {} THEN Append(given, limit)
        ELSE IF config[c].computeUnitLimitReset = "true"
        THEN [i \in 1..Len(given) |->
                IF i = FirstLimitPosition(given) THEN limit ELSE given[i]]
        ELSE given

LifetimeAlone(c) ==
    IF call[c].given.lifetimeConstraint = "undefined" \/ config[c].blockhashReset # "false"
    THEN call[c].fetched[Len(call[c].fetched)]
    ELSE call[c].given.lifetimeConstraint

\* C18: while and after a call runs, whether it resolves or rejects, and
\* whatever another call on the same message does in between, the message
\* given has the instructions and the lifetime constraint it had when the
\* call was made; and a call that resolves returns what it returns alone on
\* that message with the same answers of its RPC.
C18_InputIsNeverModified ==
    \A c \in DOMAIN call :
        /\ call[c].pc # "idle" =>
            /\ input.instructions = call[c].given.instructions
            /\ input.lifetimeConstraint = call[c].given.lifetimeConstraint
        /\ call[c].pc = "resolved" =>
            /\ call[c].result.instructions = InstructionsAlone(c)
            /\ call[c].result.lifetimeConstraint = LifetimeAlone(c)

\* C18's case: two calls on one message with a set-compute-unit-limit
\* instruction, both asked to reset it; each has replaced it in its own
\* message, with other units, and waits for its blockhash; the message given
\* still declares 100,000.
C18_Witness ==
    /\ DOMAIN call = {"p1", "p2"}
    /\ call["p1"].pc = "blockhash"
    /\ call["p2"].pc = "blockhash"
    /\ input.instructions[1].data = <<2, 100000>>
    /\ call["p1"].transaction.instructions[1].data = <<2, 550000>>
    /\ call["p2"].transaction.instructions[1].data = <<2, 1400000>>

-----------------------------------------------------------------------------
(* Properties of web3-compat.                                              *)

\* C19: whatever the RPC answers, and also when withContext: true is given,
\* what getProgramAccounts returns is the list of program accounts alone, not
\* an object with a context and a value.
C19_ReturnsJustTheList ==
    compat.accounts.pc = "resolved"
    => /\ compat.accounts.result.kind = "array"
       /\ compat.accounts.result.context = [apiVersion |-> "none", slot |-> 0]
       /\ Len(compat.accounts.result.value) = Len(compat.accounts.response[1].value)

InvocationsOf(name) ==
    { i \in 1..Len(compat.sending.invocations) :
        compat.sending.invocations[i].name = name }

\* The confirmation carries an err: it has a status, whose err is not null.
CarriesErr(confirmation) ==
    confirmation.value.t = "status" /\ confirmation.value.err # "null"

\* options.commitment, else connection.commitment, else 'confirmed'.
ExpectedCommitment ==
    IF compat.options.commitment # "undefined" THEN compat.options.commitment
    ELSE IF compat.connection.commitment # "undefined" THEN compat.connection.commitment
    ELSE "confirmed"

\* C20: a call of sendAndConfirmTransaction invokes sendRawTransaction once,
\* first, with the bytes of the transaction and the options; it invokes
\* confirmTransaction only once that has resolved with a signature, once,
\* with the signature and the expected commitment, and never if the send
\* rejects; it rejects with 'Transaction failed' exactly when the confirmation
\* carries an err, and resolves with the signature when it carries none, a
\* null status included.
C20_SendThenConfirmOnce ==
    LET sending == compat.sending
        invocations == sending.invocations
    IN  /\ sending.pc = "idle" => invocations = << >>
        /\ sending.pc # "idle" =>
            /\ invocations[1] =
                    [name |-> "sendRawTransaction", first |-> <<1, 2, 3>>,
                     second |-> compat.options]
            /\ Cardinality(InvocationsOf("sendRawTransaction")) = 1
        /\ sending.signature = "none" => InvocationsOf("confirmTransaction") = {}
        /\ sending.pc = "sending" => sending.signature = "none"
        /\ (sending.pc = "rejected" /\ sending.error = "send failed") =>
                Len(invocations) = 1
        /\ sending.signature # "none" =>
            /\ Len(invocations) = 2
            /\ invocations[2] =
                    [name |-> "confirmTransaction", first |-> sending.signature,
                     second |-> ExpectedCommitment]
        /\ sending.confirmation # << >> =>
            IF CarriesErr(sending.confirmation[1])
            THEN /\ sending.pc = "rejected"
                 /\ sending.error = "Transaction failed"
                 /\ sending.result = "none"
            ELSE /\ sending.pc = "resolved"
                 /\ sending.result = sending.signature
                 /\ sending.error = "none"
        /\ sending.error = "Transaction failed" =>
            /\ sending.confirmation # << >>
            /\ CarriesErr(sending.confirmation[1])
        /\ sending.pc = "resolved" => sending.confirmation # << >>

\* C20's case: no commitment in the options, finalized on the connection; the
\* send resolved, the confirmation has a null status, and the call resolved
\* with the signature.
C20_Witness ==
    /\ compat.options.commitment = "undefined"
    /\ compat.connection.commitment = "finalized"
    /\ compat.sending.pc = "resolved"
    /\ compat.sending.result = "signature2"
    /\ compat.sending.confirmation[1].value.t = "null"
    /\ compat.sending.invocations[2].second = "finalized"

-----------------------------------------------------------------------------
(* Properties of the WalletPersistence component. They read the wallet     *)
(* states and props of each render and the calls the storage received.     *)

\* The calls the storage received in this step.
NewStorageCalls ==
    SubSeq(persistence'.log, Len(persistence.log) + 1, Len(persistence'.log))

\* A wallet state carries a connector id when it has a non-empty one.
CarriesConnectorId(wallet) == wallet.connectorId \notin {"undefined", ""}

\* The storage of a render: the storage prop, else localStorage, else none.
StorageInUse(p) ==
    IF p.storage \notin {"undefined", "null"} THEN p.storage
    ELSE IF p.global = "localStorage" THEN "localStorage"
    ELSE "none"

KeyInUse(p) ==
    IF p.storageKey = "undefined" THEN "solana:last-connector" ELSE p.storageKey

\* An id was written and no removal followed it.
WrittenSinceLastRemoval(log) ==
    \E i \in DOMAIN log :
        /\ log[i].method = "setItem"
        /\ \A j \in DOMAIN log : j > i => log[j].method # "removeItem"

\* C21: each wallet state the component sees with a connector id is written
\* with setItem(storageKey, connectorId) on the storage in use; removeItem is
\* called only with the storage key, while the wallet is disconnected and an
\* id has been written since the last removal; a wallet that is disconnected
\* at the first render, before any id was written, removes nothing.
C21_WritesIdsAndRemovesOnlyWhatItWrote ==
    [][persistence'.renders = persistence.renders + 1 =>
        /\ (/\ persistence'.ran
            /\ StorageInUse(persistence') # "none"
            /\ CarriesConnectorId(persistence'.wallet))
           => NewStorageCalls =
                <<[method |-> "setItem",
                   storage |-> StorageInUse(persistence'),
                   key |-> KeyInUse(persistence'),
                   value |-> persistence'.wallet.connectorId]>>
        /\ \A i \in DOMAIN NewStorageCalls :
              NewStorageCalls[i].method = "removeItem" =>
                /\ NewStorageCalls[i].key = KeyInUse(persistence')
                /\ persistence'.wallet.status = "disconnected"
                /\ WrittenSinceLastRemoval(persistence.log)
        /\ (/\ ~persistence.mounted
            /\ persistence'.wallet.status = "disconnected"
            /\ ~CarriesConnectorId(persistence'.wallet))
           => NewStorageCalls = << >>
    ]_vars

\* An id was written while the wallet connected and removed at the next
\* render, the wallet being disconnected.
C21_Witness ==
    /\ persistence.renders = 2
    /\ persistence.wallet = [status |-> "disconnected", connectorId |-> "undefined"]
    /\ Len(persistence.log) = 2
    /\ persistence.log[1].method = "setItem"
    /\ persistence.log[1].value = "phantom"
    /\ persistence.log[2].method = "removeItem"

-----------------------------------------------------------------------------
(* More properties of the preparation pipeline.                            *)

\* C22: whenever simulateTransaction rejects with an error that is, or has
\* at any depth among its causes, a compute-budget-exceeded error, the
\* estimator returns 1,400,000 and the call does not reject with that error,
\* whatever the other errors of the chain are.
C22_BudgetExceededAtAnyDepthRecovers ==
    \A c \in Calls :
        (\E i \in DOMAIN call[c].simulationError :
            call[c].simulationError[i] = "budget")
        => /\ call[c].estimate = 1400000
           /\ call[c].pc = "rejected" => call[c].blockhashError # NoError

\* The number of set-compute-unit-limit instructions of a message.
LimitCount(message) == Cardinality(LimitPositions(message.instructions))

\* C23 (as claimed): for every input message and all options, the message a
\* call returns has at most one set-compute-unit-limit instruction.
C23_AtMostOneLimitInstruction ==
    \A c \in Calls :
        call[c].pc = "resolved" => LimitCount(call[c].result) <= 1

\* C23 (amended): the message a call returns has one set-compute-unit-limit
\* instruction when the input has at most one, and as many as the input
\* otherwise; it is one instruction longer than the input when the input has
\* none and of the same length when it has one or more.
C23_NeverAddsASecondLimitInstruction ==
    \A c \in Calls :
        call[c].pc = "resolved" =>
            /\ LimitCount(input) <= 1 => LimitCount(call[c].result) = 1
            /\ LimitCount(input) > 1 => LimitCount(call[c].result) = LimitCount(input)
            /\ Len(call[c].result.instructions) =
                  Len(input.instructions) + (IF LimitCount(input) = 0 THEN 1 ELSE 0)

\* A call that was asked to refresh the one limit instruction of its input
\* has resolved, the simulation having been made.
C23_Witness ==
    \E c \in Calls :
        /\ call[c].pc = "resolved"
        /\ LimitCount(input) = 1
        /\ config[c].computeUnitLimitReset = "true"
        /\ call[c].estimate # -1
        /\ Len(input.instructions) = 2

\* What the estimator is to make of a resolved simulation: the number
\* unitsConsumed holds, and 0 when it holds none.
UnitsExpected(value) ==
    IF value.unitsConsumed.t = "number" THEN value.unitsConsumed.n ELSE 0

RequestCount(c, name) == Cardinality(EventsOf(c, "request", name))

\* The getLatestBlockhash requests a call makes when no request fails: two
\* when the input has no lifetime and the estimator runs, one when the input
\* has no lifetime and the estimator does not run or when it has one and
\* blockhashReset is not false, none when it has one and blockhashReset is
\* false.
BlockhashRequestsDue(c) ==
    IF input.lifetimeConstraint = "undefined"
    THEN (IF EstimationRuns(c) THEN 2 ELSE 1)
    ELSE (IF config[c].blockhashReset = "false" THEN 0 ELSE 1)

\* C26 (as claimed): a call, once over, has requested simulateTransaction at
\* most once and getLatestBlockhash exactly as many times as the lifetime of
\* the input and the options tell.
C26_RequestCountsOfEveryCall ==
    \A c \in Calls :
        call[c].pc \in {"resolved", "rejected"} =>
            /\ RequestCount(c, "simulateTransaction") <= 1
            /\ RequestCount(c, "getLatestBlockhash") = BlockhashRequestsDue(c)

\* C26 (amended): a call that resolves has requested getLatestBlockhash
\* exactly that many times, and each request was answered; every call
\* requests simulateTransaction at most once (once exactly when it resolves
\* after the estimator ran) and never more blockhashes than that.
C26_RequestCountsOfResolvedCalls ==
    \A c \in Calls :
        /\ RequestCount(c, "simulateTransaction") <= 1
        /\ RequestCount(c, "getLatestBlockhash") <= BlockhashRequestsDue(c)
        /\ call[c].pc = "resolved" =>
              /\ RequestCount(c, "getLatestBlockhash") = BlockhashRequestsDue(c)
              /\ Len(call[c].fetched) = BlockhashRequestsDue(c)
              /\ RequestCount(c, "simulateTransaction") = (IF EstimationRuns(c) THEN 1 ELSE 0)

\* A call on a message without lifetime has resolved after the estimator
\* ran: two blockhashes were fetched, and they differ.
C26_Witness ==
    \E c \in Calls :
        /\ call[c].pc = "resolved"
        /\ input.lifetimeConstraint = "undefined"
        /\ RequestCount(c, "simulateTransaction") = 1
        /\ RequestCount(c, "getLatestBlockhash") = 2
        /\ Len(call[c].fetched) = 2
        /\ call[c].fetched[1] # call[c].fetched[2]

\* The options of a call, its RPC apart.
OptionsOf(c) ==
    <<config[c].computeUnitLimitMultiplier, config[c].computeUnitLimitReset,
      config[c].blockhashReset, config[c].logRequest>>

\* The simulation of call c has resolved, with this response.
ResponseOf(c) == call[c].simulationValues[1]

\* C27: two calls on the same message with the same options whose
\* simulations resolved with the same unitsConsumed, whatever err and logs
\* each response carries, and whose blockhash requests got the same answers:
\* neither rejects after its simulation resolved unless a blockhash request
\* failed, and when both have resolved they have returned the same message.
C27_OnlyUnitsConsumedMatters ==
    \A c, d \in DOMAIN call :
        (/\ call[c].simulationValues # << >>
         /\ call[d].simulationValues # << >>
         /\ OptionsOf(c) = OptionsOf(d)
         /\ call[c].given = call[d].given
         /\ ResponseOf(c).unitsConsumed = ResponseOf(d).unitsConsumed)
        => /\ call[c].pc = "rejected" => call[c].blockhashError # NoError
           /\ call[c].estimate = call[d].estimate
           /\ (/\ call[c].pc = "resolved" /\ call[d].pc = "resolved"
               /\ call[c].fetched = call[d].fetched)
              => /\ call[c].result = call[d].result
                 /\ call[c].logged = call[d].logged

\* Two calls have resolved with the same message; the simulation of one
\* reported a failure, with logs, and that of the other none, for the same
\* units consumed.
C27_Witness ==
    /\ call["p1"].pc = "resolved" /\ call["p2"].pc = "resolved"
    /\ call["p1"].simulationValues # << >> /\ call["p2"].simulationValues # << >>
    /\ ResponseOf("p1").err = "InstructionError"
    /\ ResponseOf("p1").logs # << >>
    /\ ResponseOf("p2").err = "null"
    /\ ResponseOf("p2").logs = << >>
    /\ ResponseOf("p1").unitsConsumed = [t |-> "number", n |-> 500000]
    /\ ResponseOf("p2").unitsConsumed = [t |-> "number", n |-> 500000]
    /\ call["p1"].result = call["p2"].result
    /\ call["p1"].estimate = 500000

-----------------------------------------------------------------------------
(* More properties of the controller.                                      *)

\* The first and the last publish of send call s.
FirstPublishOf(s) == CHOOSE i \in PublishesOf(s) : \A j \in PublishesOf(s) : i <= j

LastPublishOf(s) == CHOOSE i \in PublishesOf(s) : \A j \in PublishesOf(s) : i >= j

HasSettled(s) == send[s].pc \in {"resolved", "rejected"}

\* Send calls s and t were pending at the same time: each started before the
\* other settled.
Overlap(s, t) ==
    /\ s # t
    /\ PublishesOf(s) # {} /\ PublishesOf(t) # {}
    /\ HasSettled(s) => FirstPublishOf(t) < LastPublishOf(s)
    /\ HasSettled(t) => FirstPublishOf(s) < LastPublishOf(t)

\* The state a settled send call ends with.
TerminalOf(s) ==
    IF send[s].pc = "resolved"
    THEN [status |-> "success", data |-> send[s].value, error |-> << >>]
    ELSE [status |-> "error", data |-> << >>, error |-> send[s].error]

\* C24: when two send calls overlap, helper.sendTransfer is invoked for both,
\* once each; once both have settled, and until the next send or reset, the
\* state is the terminal state of the one that settled last, whichever
\* started first.
C24_LastSettleWins ==
    \A s, t \in Sends :
        Overlap(s, t) =>
            /\ Cardinality(TransfersOf(s)) = 1
            /\ Cardinality(TransfersOf(t)) = 1
            /\ (/\ HasSettled(s) /\ HasSettled(t)
                /\ LastPublishOf(t) < LastPublishOf(s)
                /\ LastPublishOf(s) = Len(hist.publishedBy))
               => /\ ctl.state = TerminalOf(s)
                  /\ hist.publishes[LastPublishOf(t)] = TerminalOf(t)

\* Two overlapping send calls have settled, the one that started first last,
\* and with another result than the other.
C24_Witness ==
    /\ hist.publishedBy = <<1, 2, 2, 1>>
    /\ send[1].pc = "rejected"
    /\ send[2].pc = "resolved"
    /\ ctl.state.status = "error"
    /\ Len(hist.transfers) = 2

\* The resets made while send call s was in flight: after its loading
\* publish and, if it has settled, before its last publish.
ResetsDuring(s) ==
    { r \in 1..Len(hist.publishedBy) :
        /\ hist.publishedBy[r] = 0
        /\ PublishesOf(s) # {}
        /\ FirstPublishOf(s) < r
        /\ HasSettled(s) => r < LastPublishOf(s) }

\* C28: a reset made while the transfer of a send call is pending publishes
\* the idle state and leaves the call in flight, its transfer invoked once;
\* when the transfer settles the call publishes its success or error state
\* all the same, and that state, not idle, is the state until the next send
\* or reset.
C28_ResetDoesNotCancel ==
    \A s \in Sends :
        \A r \in ResetsDuring(s) :
            /\ hist.publishes[r] = [status |-> "idle", data |-> << >>, error |-> << >>]
            /\ Cardinality(TransfersOf(s)) = 1
            /\ ~HasSettled(s) =>
                  /\ send[s].pc = "pending"
                  /\ r = Len(hist.publishedBy) => ctl.state.status = "idle"
            /\ HasSettled(s) =>
                  /\ hist.publishes[LastPublishOf(s)] = TerminalOf(s)
                  /\ LastPublishOf(s) = Len(hist.publishedBy) =>
                        /\ ctl.state = TerminalOf(s)
                        /\ ctl.state.status \in {"success", "error"}

\* A send, a reset while its transfer was pending, and the transfer has
\* failed: the state is the error state of the send.
C28_Witness ==
    /\ hist.publishedBy = <<1, 0, 1>>
    /\ hist.publishes[2].status = "idle"
    /\ send[1].pc = "rejected"
    /\ ctl.state.status = "error"
    /\ ctl.state.error = send[1].error

\* No listener has thrown so far: none was notified of a status it throws on.
NoListenerHasThrown ==
    \A l \in Listeners :
        \A i \in DOMAIN hist.seen[l] : hist.seen[l][i] \notin throwsOn[l]

\* The send calls whose transfer was invoked and has not settled.
InFlight == { s \in Sends : TransfersOf(s) # {} /\ ~HasSettled(s) }

\* C29: as long as no listener has thrown, the status is loading only while
\* the transfer of some send call is pending; once every send call that was
\* started has settled, it is not loading.
C29_LoadingOnlyWhileInFlight ==
    NoListenerHasThrown =>
        /\ ctl.state.status = "loading" =>
              \E s \in InFlight : send[s].pc = "pending"
        /\ (\A s \in Sends : PublishesOf(s) # {} => HasSettled(s)) =>
              ctl.state.status # "loading"

\* A listener that throws on success is subscribed; a first send has
\* failed, a second one is in flight, and the status is loading.
C29_Witness ==
    /\ throwsOn["l1"] = {"success"}
    /\ hist.seen["l1"] = <<"loading", "error", "loading">>
    /\ hist.publishedBy = <<1, 1, 2>>
    /\ ctl.state.status = "loading"
    /\ send[2].pc = "pending"
    /\ NoListenerHasThrown

\* The success state of send call s.
SuccessOf(s) == [status |-> "success", data |-> <<"sig", s>>, error |-> << >>]

\* The listeners that threw when they were notified of the success of send
\* call s: they read that state, and they throw on success.
ThrewOnSuccessOf(s) ==
    { l \in Listeners :
        /\ "success" \in throwsOn[l]
        /\ \E i \in DOMAIN hist.read[l] : hist.read[l][i] = SuccessOf(s) }

\* C30: when a listener throws while it is notified of the success of a send
\* call, the call has published, after loading and success, an error state
\* that carries the exception of the listener and no data; its promise is
\* rejected, with an exception of a listener, and has no value; the transfer
\* was invoked once; and that error state is the state until the next send or
\* reset.
C30_ListenerFailureBecomesSendFailure ==
    \A s \in Sends :
        \A l \in ThrewOnSuccessOf(s) :
            LET mine == PublishesOf(s)
                exception == <<"listener", l>>
                failed == [status |-> "error", data |-> << >>, error |-> exception]
            IN  /\ Cardinality(mine) = 3
                /\ LastPublishOf(s) - 1 \in mine
                /\ hist.publishes[FirstPublishOf(s)].status = "loading"
                /\ hist.publishes[LastPublishOf(s) - 1] = SuccessOf(s)
                /\ hist.publishes[LastPublishOf(s)] = failed
                /\ send[s].pc = "rejected"
                /\ send[s].value = << >>
                /\ send[s].error \in { <<"listener", m>> : m \in Listeners }
                /\ Cardinality(TransfersOf(s)) = 1
                /\ LastPublishOf(s) = Len(hist.publishedBy) => ctl.state = failed

\* The listener throws on success only; the transfer of a send call has
\* resolved, and the call is rejected with the exception of the listener,
\* which the state carries.
C30_Witness ==
    /\ throwsOn["l1"] = {"success"}
    /\ hist.seen["l1"] = <<"loading", "success", "error">>
    /\ send[1].pc = "rejected"
    /\ send[1].error = <<"listener", "l1">>
    /\ ctl.state = [status |-> "error", data |-> << >>, error |-> <<"listener", "l1">>]
    /\ Len(hist.transfers) = 1

====
